---- MODULE Spec2Model ----
(***************************************************************************)
(* Verification model of the Notion MCP gateway.                           *)
(*                                                                         *)
(* The module holds several specifications over one set of variables:      *)
(*   SpecUpsert  /v1/upsert (routers/upsert.py) and NotionEngine.upsert_page*)
(*   SpecLink    /v1/link (routers/upsert.py) and NotionEngine.link_pages  *)
(*   SpecBulk    /v1/bulk (routers/bulk.py) and NotionEngine.bulk_operations*)
(*   SpecRetry   NotionClientWrapper._retry_request                        *)
(*   SpecQueue   SimpleJobQueue (jobs/simple_queue.py)                     *)
(*   SpecRows    POST /v1/jobs (routers/bulk.py) and the jobs table        *)
(*   SpecIdem    POST /mcp/tools/call and the audited POST /v1/upsert with  *)
(*               the idempotency and audit services                        *)
(*   SpecTimeout TimeoutMiddleware.dispatch (middleware/timeout.py)        *)
(*   SpecAuth    verify_bearer_token (security.py)                         *)
(*   SpecHttp    add_request_id_middleware and the exception handlers      *)
(*   SpecSse     the event streams of GET /mcp/sse (routers/mcp.py,        *)
(*               mcp/server.py)                                            *)
(*   SpecRpc     POST /mcp/sse (routers/mcp.py)                            *)
(*   SpecOauth   GET /oauth/callback (routers/oauth.py)                    *)
(*   SpecNorm    PropertyNormalizer: normalize and simplify back           *)
(*   SpecRace    concurrent check_idempotency / store_idempotency          *)
(*   SpecLinkRace concurrent NotionEngine.link_pages (core/engine.py)      *)
(*   SpecRowsTimeout SpecRows with a cancelled request                     *)
(*   SpecQueueLive SpecQueue with tasks that run and handlers that end     *)
(*   SpecWrap    audit_write_operation (decorators/audit.py)               *)
(*   SpecFold    return_url folded into the OAuth state (routers/oauth.py) *)
(* Each specification leaves the variables of the others at their initial  *)
(* value.                                                                  *)
(***************************************************************************)
EXTENDS Integers, Sequences, FiniteSets, TLC

None == "None"

\* ---------------------------------------------------------------- bounds
MaxPages == 2
LinkPages == 3
MaxOps == 3
MaxRetriesBound == 3
MaxRetryDelay == 2
MaxJobs == 3
MaxRows == 2
MaxTicks == 1
MaxElapsed == 62
MaxHandled == 3
MaxLogRows == 3

\* ------------------------------------------------------- external workspace
\* The external workspace holds one database.  Its schema has a title
\* property and a rich-text property; RelationProperty is a relation.
PropNames == {"Name", "ExtId"}
Values == {"a", "b"}
RelationProperty == "Related"

Schema == [Name |-> "title", ExtId |-> "rich_text"]

\* str.lower() on the property names of the schema
Lower == [Name |-> "name", ExtId |-> "extid"]

VARIABLES
    pages,      \* external workspace: sequence of pages, page id = index
    req,        \* the request a client sends, and sends again
    last        \* outcome of the most recent call, or an external edit

opsVars == <<pages, req, last>>

VARIABLES
    bulk        \* the Bulk invocation in progress: position, results, errors

bulkVars == <<bulk>>

VARIABLES
    retry       \* one _retry_request invocation of the typed client

retryVars == <<retry>>

VARIABLES
    jobs,       \* SimpleJobQueue.jobs: the jobs, job id = index
    handlers    \* SimpleJobQueue.handlers: the kinds with a handler

queueVars == <<jobs, handlers>>

VARIABLES
    rows,       \* the committed rows of the jobs table, in insertion order
    cjob        \* the POST /v1/jobs request in flight
rowVars == <<rows, cjob>>

VARIABLES
    idem,       \* the idempotency_keys table: key -> committed row or Absent
    audit,      \* the audit_logs table: the committed rows in order
    now,        \* datetime.utcnow(), in seconds
    ticks,      \* how often the clock has advanced
    call        \* the write request in flight, then its answer
idemVars == <<idem, audit, now, ticks, call>>

VARIABLES
    tmo         \* one request under the timeout wrapping: position, elapsed seconds, answer
timeoutVars == <<tmo>>

VARIABLES
    auth        \* the bearer guard: configured token, the request in flight and its answer, handler runs
authVars == <<auth>>

VARIABLES
    http,        \* one request through the middleware stack: request id, handler outcome, response
    logrows     \* the audit rows the handlers have written, with the request that wrote them
httpVars == <<http, logrows>>

VARIABLES
    sse         \* one event stream: variant, generator position, chunks sent, the peer
sseVars == <<sse>>

VARIABLES
    rpc         \* one POST /mcp/sse: the request, the handler position, the message parsed, the response
rpcVars == <<rpc>>

VARIABLES
    connections, \* the rows of the connections table, in insertion order
    callbacks,   \* the OAuth callbacks in flight, by request
    started     \* the callbacks received so far
oauthVars == <<connections, callbacks, started>>

VARIABLES
    trip        \* one value on its way through the normalizer and back: type, value, wire property, simplified again
normVars == <<trip>>

VARIABLES
    idrows,      \* the rows of the idempotency_keys table as the concurrent requests see them
    racers,      \* the concurrent tool calls: position, key, hash, what the store found
    commits,     \* the stores that committed, in commit order
    raced       \* the concurrent tool calls received so far
raceVars == <<idrows, racers, commits, raced>>

VARIABLES
    relation_list,    \* the relation list of the from-page at the external service
    linkers,     \* the concurrent link_pages calls: position, target, the list read, result
    linkcalls   \* the link_pages calls received so far
linkRaceVars == <<relation_list, linkers, linkcalls>>

VARIABLES
    auditrows,   \* the rows of the audit_logs table seen by the decorated handlers
    wrapped,     \* the decorated call in progress: position and what the handler did
    wraplog     \* the decorated calls finished so far: handler outcome, what the caller got, rows written
wrapVars == <<auditrows, wrapped, wraplog>>

VARIABLES
    statetrip   \* one pass through /oauth/start and /oauth/callback: position, the state and return_url given, the state sent, what callback recovered
foldVars == <<statetrip>>

vars == <<opsVars, bulkVars, retryVars, queueVars, rowVars, idemVars, timeoutVars, authVars, httpVars, sseVars, rpcVars, oauthVars, normVars, raceVars, linkRaceVars, wrapVars, foldVars>>

\* the variables the handlers of a specification leave alone
outsideOps == <<bulkVars, retryVars, queueVars, rowVars, idemVars, timeoutVars, authVars, httpVars, sseVars, rpcVars, oauthVars, normVars, raceVars, linkRaceVars, wrapVars, foldVars>>
outsideBulk == <<last, retryVars, queueVars, rowVars, idemVars, timeoutVars, authVars, httpVars, sseVars, rpcVars, oauthVars, normVars, raceVars, linkRaceVars, wrapVars, foldVars>>
outsideRetry == <<opsVars, bulkVars, queueVars, rowVars, idemVars, timeoutVars, authVars, httpVars, sseVars, rpcVars, oauthVars, normVars, raceVars, linkRaceVars, wrapVars, foldVars>>
outsideQueue == <<opsVars, bulkVars, retryVars, rowVars, idemVars, timeoutVars, authVars, httpVars, sseVars, rpcVars, oauthVars, normVars, raceVars, linkRaceVars, wrapVars, foldVars>>
outsideRows == <<last, retryVars, queueVars, idemVars, timeoutVars, authVars, httpVars, sseVars, rpcVars, oauthVars, normVars, raceVars, linkRaceVars, wrapVars, foldVars>>
outsideIdem == <<req, last, bulkVars, retryVars, queueVars, rowVars, timeoutVars, authVars, httpVars, sseVars, rpcVars, oauthVars, normVars, raceVars, linkRaceVars, wrapVars, foldVars>>

BlankProps == [p \in PropNames |-> None]

NoCall == [kind |-> "none"]

NoBulk == [pc |-> "idle"]

IdleBulk == bulk = NoBulk

NoRetry == [pc |-> "idle"]

IdleRetry == retry = NoRetry

IdleQueue == jobs = <<>> /\ handlers = {}

NoJobRequest == [pc |-> "idle"]

IdleRows == rows = <<>> /\ cjob = NoJobRequest

NoWrite == [pc |-> "idle"]

IdleIdem ==
    /\ idem = [k \in {"k1"} |-> [form |-> "absent"]]
    /\ audit = <<>>
    /\ now = 0
    /\ ticks = 0
    /\ call = NoWrite

IdleOps == pages = <<>> /\ req = NoCall /\ last = NoCall

\* ---------------------------------------- frames of the further specifications
IdleTimeout ==
    tmo = [pc |-> "idle"]

IdleAuth ==
    auth = [pc |-> "idle"]

IdleHttp ==
    http = [pc |-> "idle"] /\ logrows = <<>>

IdleSse ==
    sse = [pc |-> "idle"]

IdleRpc ==
    rpc = [pc |-> "idle"]

IdleOauth ==
    connections = <<>> /\ callbacks = [p \in {} |-> 0] /\ started = 0

IdleNorm ==
    trip = [pc |-> "idle"]

IdleRace ==
    idrows = <<>> /\ racers = [p \in {1, 2} |-> [pc |-> "idle"]] /\ commits = <<>> /\ raced = 0

IdleLinkRace ==
    relation_list = <<>> /\ linkers = [p \in {1, 2} |-> [pc |-> "idle"]] /\ linkcalls = 0

IdleWrap ==
    auditrows = <<>> /\ wrapped = [pc |-> "idle"] /\ wraplog = <<>>

IdleFold ==
    statetrip = [pc |-> "idle"]

IdleCore ==
    IdleOps /\ IdleBulk /\ IdleRetry /\ IdleQueue /\ IdleRows /\ IdleIdem

IdleRest ==
    IdleTimeout /\ IdleAuth /\ IdleHttp /\ IdleSse /\ IdleRpc /\ IdleOauth /\ IdleNorm /\ IdleRace /\ IdleLinkRace /\ IdleWrap /\ IdleFold

outsideTimeout ==
    <<opsVars, bulkVars, retryVars, queueVars, rowVars, idemVars, authVars, httpVars, sseVars, rpcVars, oauthVars, normVars, raceVars, linkRaceVars, wrapVars, foldVars>>

IdleButTimeout ==
    IdleCore /\ IdleAuth /\ IdleHttp /\ IdleSse /\ IdleRpc /\ IdleOauth /\ IdleNorm /\ IdleRace /\ IdleLinkRace /\ IdleWrap /\ IdleFold

outsideAuth ==
    <<opsVars, bulkVars, retryVars, queueVars, rowVars, idemVars, timeoutVars, httpVars, sseVars, rpcVars, oauthVars, normVars, raceVars, linkRaceVars, wrapVars, foldVars>>

IdleButAuth ==
    IdleCore /\ IdleTimeout /\ IdleHttp /\ IdleSse /\ IdleRpc /\ IdleOauth /\ IdleNorm /\ IdleRace /\ IdleLinkRace /\ IdleWrap /\ IdleFold

outsideHttp ==
    <<opsVars, bulkVars, retryVars, queueVars, rowVars, idemVars, timeoutVars, authVars, sseVars, rpcVars, oauthVars, normVars, raceVars, linkRaceVars, wrapVars, foldVars>>

IdleButHttp ==
    IdleCore /\ IdleTimeout /\ IdleAuth /\ IdleSse /\ IdleRpc /\ IdleOauth /\ IdleNorm /\ IdleRace /\ IdleLinkRace /\ IdleWrap /\ IdleFold

outsideSse ==
    <<opsVars, bulkVars, retryVars, queueVars, rowVars, idemVars, timeoutVars, authVars, httpVars, rpcVars, oauthVars, normVars, raceVars, linkRaceVars, wrapVars, foldVars>>

IdleButSse ==
    IdleCore /\ IdleTimeout /\ IdleAuth /\ IdleHttp /\ IdleRpc /\ IdleOauth /\ IdleNorm /\ IdleRace /\ IdleLinkRace /\ IdleWrap /\ IdleFold

outsideRpc ==
    <<opsVars, bulkVars, retryVars, queueVars, rowVars, idemVars, timeoutVars, authVars, httpVars, sseVars, oauthVars, normVars, raceVars, linkRaceVars, wrapVars, foldVars>>

IdleButRpc ==
    IdleCore /\ IdleTimeout /\ IdleAuth /\ IdleHttp /\ IdleSse /\ IdleOauth /\ IdleNorm /\ IdleRace /\ IdleLinkRace /\ IdleWrap /\ IdleFold

outsideOauth ==
    <<opsVars, bulkVars, retryVars, queueVars, rowVars, idemVars, timeoutVars, authVars, httpVars, sseVars, rpcVars, normVars, raceVars, linkRaceVars, wrapVars, foldVars>>

IdleButOauth ==
    IdleCore /\ IdleTimeout /\ IdleAuth /\ IdleHttp /\ IdleSse /\ IdleRpc /\ IdleNorm /\ IdleRace /\ IdleLinkRace /\ IdleWrap /\ IdleFold

outsideNorm ==
    <<opsVars, bulkVars, retryVars, queueVars, rowVars, idemVars, timeoutVars, authVars, httpVars, sseVars, rpcVars, oauthVars, raceVars, linkRaceVars, wrapVars, foldVars>>

IdleButNorm ==
    IdleCore /\ IdleTimeout /\ IdleAuth /\ IdleHttp /\ IdleSse /\ IdleRpc /\ IdleOauth /\ IdleRace /\ IdleLinkRace /\ IdleWrap /\ IdleFold

outsideRace ==
    <<opsVars, bulkVars, retryVars, queueVars, rowVars, idemVars, timeoutVars, authVars, httpVars, sseVars, rpcVars, oauthVars, normVars, linkRaceVars, wrapVars, foldVars>>

IdleButRace ==
    IdleCore /\ IdleTimeout /\ IdleAuth /\ IdleHttp /\ IdleSse /\ IdleRpc /\ IdleOauth /\ IdleNorm /\ IdleLinkRace /\ IdleWrap /\ IdleFold

outsideLinkRace ==
    <<opsVars, bulkVars, retryVars, queueVars, rowVars, idemVars, timeoutVars, authVars, httpVars, sseVars, rpcVars, oauthVars, normVars, raceVars, wrapVars, foldVars>>

IdleButLinkRace ==
    IdleCore /\ IdleTimeout /\ IdleAuth /\ IdleHttp /\ IdleSse /\ IdleRpc /\ IdleOauth /\ IdleNorm /\ IdleRace /\ IdleWrap /\ IdleFold

outsideWrap ==
    <<opsVars, bulkVars, retryVars, queueVars, rowVars, idemVars, timeoutVars, authVars, httpVars, sseVars, rpcVars, oauthVars, normVars, raceVars, linkRaceVars, foldVars>>

IdleButWrap ==
    IdleCore /\ IdleTimeout /\ IdleAuth /\ IdleHttp /\ IdleSse /\ IdleRpc /\ IdleOauth /\ IdleNorm /\ IdleRace /\ IdleLinkRace /\ IdleFold

outsideFold ==
    <<opsVars, bulkVars, retryVars, queueVars, rowVars, idemVars, timeoutVars, authVars, httpVars, sseVars, rpcVars, oauthVars, normVars, raceVars, linkRaceVars, wrapVars>>

IdleButFold ==
    IdleCore /\ IdleTimeout /\ IdleAuth /\ IdleHttp /\ IdleSse /\ IdleRpc /\ IdleOauth /\ IdleNorm /\ IdleRace /\ IdleLinkRace /\ IdleWrap

\* ------------------------------------------------------------ end of frames

\* ids of the pages whose property prop holds value
Matching(pgs, prop, value) ==
    {i \in 1..Len(pgs) : pgs[i].props[prop] = value}

\* POST /databases/{id}/query with a one-property equality filter.  The
\* external service rejects a filter whose type is not the property's type.
databases_query(pgs, prop, ftype, value) ==
    IF Schema[prop] = ftype
    THEN [ok |-> TRUE, results |-> Matching(pgs, prop, value)]
    ELSE [ok |-> FALSE, results |-> {}]

\* A properties object maps each property name to a simplified value
\* {"type": t, "value": v}, to a wire value {t: [text v]}, or to nothing.
Absent == [form |-> "absent"]

Keys(properties) == {p \in PropNames : properties[p].form # "absent"}

EmptyDict == [p \in PropNames |-> Absent]

\* wire properties accepted by the external service: every property carries
\* the type the schema declares for it
WireOk(wire) == \A p \in Keys(wire) : wire[p].type = Schema[p]

\* POST /pages: a new page holding the given wire properties
pages_create(pgs, wire) ==
    Append(pgs, [props |-> [p \in PropNames |->
                               IF p \in Keys(wire) THEN wire[p].text ELSE None],
                 rel |-> <<>>])

\* PATCH /pages/{id}: the given wire properties replace the page's values
pages_update(pgs, id, wire) ==
    [pgs EXCEPT ![id].props = [p \in PropNames |->
                               IF p \in Keys(wire) THEN wire[p].text ELSE @[p]]]

\* PATCH /pages/{id} with a relation property: the list replaces the old one
pages_update_relation(pgs, id, relation) ==
    [pgs EXCEPT ![id].rel = relation]

\* ------------------------------------------------------ property normalizer
\* simplified value {"type": t, "value": v} -> wire value {t: [text v]}
normalize_property_value(prop_type, value) ==
    [form |-> "wire", type |-> prop_type, text |-> value]

normalize_properties(properties) ==
    [k \in PropNames |->
        IF properties[k].form = "simple"
        THEN normalize_property_value(properties[k].type, properties[k].value)
        ELSE properties[k]]

\* the properties objects a caller sends: empty, or one simplified property
Simplified(p, v) == [form |-> "simple", type |-> Schema[p], value |-> v]

PropsInputs ==
    {EmptyDict} \cup
    {[EmptyDict EXCEPT ![p] = Simplified(p, v)] : p \in {"ExtId"}, v \in Values}

\* the wire value the upsert handlers build for the unique property
TextProperty(ptype, value) == [form |-> "wire", type |-> ptype, text |-> value]

\* ------------------------------------------------------------- CoreEngine
\* The connection-bound engine the /v1 routers and the tool call use hands
\* each call to the external service and returns its answer unchanged.
query_database(pgs, prop, ftype, value) == databases_query(pgs, prop, ftype, value)

create_page(pgs, properties) == pages_create(pgs, properties)

update_page(pgs, page_id, properties) == pages_update(pgs, page_id, properties)

\* --------------------------------------------------------- upsert handlers
\* the filter type both router-level upserts choose for the unique property
FilterType(unique_prop) ==
    IF Lower[unique_prop] \in {"name", "title"} THEN "title" ELSE "rich_text"

ErrorResult(pgs) == [pages |-> pgs, action |-> "error", writes |-> 0]

\* POST /v1/upsert.  up: the external service answers; pick: the page the
\* query returns when there are matches (page_size = 1).
upsert(pgs, unique_prop, unique_value, properties, content_blocks, up, pick) ==
    LET normalized_properties ==
            IF Keys(properties) # {} THEN normalize_properties(properties)
            ELSE EmptyDict
        query_result ==
            query_database(pgs, unique_prop, FilterType(unique_prop), unique_value)
    IN  IF unique_value = None THEN ErrorResult(pgs)
        ELSE IF ~up \/ ~query_result.ok THEN ErrorResult(pgs)
        ELSE IF query_result.results # {}
        THEN IF Keys(normalized_properties) # {}
             THEN IF WireOk(normalized_properties)
                  THEN [pages |-> update_page(pgs, pick, normalized_properties),
                        action |-> "updated",
                        writes |-> 1 + (IF content_blocks THEN 1 ELSE 0)]
                  ELSE ErrorResult(pgs)
             ELSE [pages |-> pgs, action |-> "updated",
                   writes |-> IF content_blocks THEN 1 ELSE 0]
        ELSE LET create_properties ==
                     [normalized_properties EXCEPT ![unique_prop] =
                         TextProperty(FilterType(unique_prop), unique_value)]
             IN  IF WireOk(create_properties)
                 THEN [pages |-> create_page(pgs, create_properties),
                       action |-> "created", writes |-> 1]
                 ELSE ErrorResult(pgs)

\* NotionEngine.upsert_page.  The result is the page itself; action names
\* the branch taken.
upsert_page(pgs, unique_property, unique_value, properties, children, up, pick) ==
    LET results ==
            databases_query(pgs, unique_property, "rich_text", unique_value)
        normalized_props == normalize_properties(properties)
    IN  IF unique_value = None \/ ~up \/ ~results.ok THEN ErrorResult(pgs)
        ELSE IF ~WireOk(normalized_props) THEN ErrorResult(pgs)
        ELSE IF results.results # {}
        THEN [pages |-> pages_update(pgs, pick, normalized_props),
              action |-> "updated",
              writes |-> 1 + (IF children THEN 1 ELSE 0)]
        ELSE [pages |-> pages_create(pgs, normalized_props),
              action |-> "created", writes |-> 1]

Variants == {"router", "engine"}
IdemKeys == {"k1"}

CountMatching(pgs, prop, value) ==
    IF value = None THEN 0 ELSE Cardinality(Matching(pgs, prop, value))

UpsertRequests ==
    [kind : {"upsert"}, variant : Variants, key : IdemKeys \cup {None},
     uprop : PropNames, uval : Values \cup {None},
     properties : PropsInputs, blocks : BOOLEAN]

\* the client sends req; the handler runs to completion
UpsertCall(up) ==
    LET ftype == IF req.variant = "router" THEN FilterType(req.uprop)
                 ELSE "rich_text"
        found == IF req.uval = None THEN {}
                 ELSE databases_query(pages, req.uprop, ftype, req.uval).results
    IN  \E pick \in found \cup {0} :
          /\ (found # {}) => pick \in found
          /\ LET r == IF req.variant = "router"
                      THEN upsert(pages, req.uprop, req.uval, req.properties,
                                  req.blocks, up, pick)
                      ELSE upsert_page(pages, req.uprop, req.uval,
                                       req.properties, req.blocks, up, pick)
                 repeat == last.kind = "call" /\ last.action # "error"
             IN  /\ Len(r.pages) <= MaxPages
                 /\ pages' = r.pages
                 /\ last' = [kind |-> "call",
                             action |-> r.action, writes |-> r.writes,
                             before |-> CountMatching(pages, req.uprop, req.uval),
                             after |-> CountMatching(r.pages, req.uprop, req.uval),
                             repeat |-> repeat,
                             firstAction |-> IF repeat THEN last.action ELSE "none",
                             firstBefore |-> IF repeat THEN last.before ELSE 0]
                 /\ UNCHANGED <<req, outsideOps>>

UpsertRequest == \E up \in BOOLEAN : UpsertCall(up)

\* somebody else edits a page of the external workspace
ExternalEdit ==
    \E i \in 1..Len(pages), p \in PropNames, v \in Values \cup {None} :
        /\ pages[i].props[p] # v
        /\ pages' = [pages EXCEPT ![i].props[p] = v]
        /\ last' = [kind |-> "external"]
        /\ UNCHANGED <<req, outsideOps>>

InitUpsert ==
    /\ pages = <<>>
    /\ req \in UpsertRequests
    /\ last = NoCall
    /\ IdleBulk /\ IdleRetry /\ IdleQueue /\ IdleRows /\ IdleIdem /\ IdleRest

NextUpsert == UpsertRequest \/ ExternalEdit

SpecUpsert == InitUpsert /\ [][NextUpsert]_vars

\* ----------------------------------------------------------- link handlers
\* JSON values as the handlers see them: a dict with its fields, or a list
Dict(fields) == [kind |-> "dict", fields |-> fields]
List(items) == [kind |-> "list", items |-> items]
EmptyJson == Dict(<<>>)

\* dict.get(key, default)
Get(d, key, default) ==
    IF key \in DOMAIN d.fields THEN d.fields[key] ELSE default

\* the "properties" object of GET /pages/{id}: the relation property holds
\* {"type": "relation", "relation": [{"id": ...}, ...]}
PageProperties(page) ==
    Dict([Related |-> Dict([type |-> "relation", relation |-> List(page.rel)])])

\* CoreEngine.get_page: the page object of the external service
get_page(pgs, page_id) == PageProperties(pgs[page_id])

Contains(seq, x) == \E i \in 1..Len(seq) : seq[i] = x

CountIn(seq, x) == Cardinality({i \in 1..Len(seq) : seq[i] = x})

LinkError(pgs) == [pages |-> pgs, action |-> "error", writes |-> 0]

\* the external service accepts a relation patch when the property is the
\* relation property and every target exists
RelationPatchOk(pgs, relation_property, relation) ==
    /\ relation_property = RelationProperty
    /\ \A i \in 1..Len(relation) : relation[i] \in 1..Len(pgs)

\* POST /v1/link (and _execute_link of /v1/bulk, notion.link of the tool call)
link(pgs, from_type, from_id, to_type, to_id, relation_property, up) ==
    IF from_type # "page" \/ to_type # "page" THEN LinkError(pgs)
    ELSE IF ~up \/ from_id \notin 1..Len(pgs) THEN LinkError(pgs)
    ELSE
    LET current_properties == get_page(pgs, from_id)
        relation_prop == Get(current_properties, relation_property, EmptyJson)
        relation_data == Get(relation_prop, "relation", EmptyJson)
        current_relations ==
            IF relation_data.kind = "dict"
            THEN Get(relation_data, "relation", List(<<>>)).items
            ELSE <<>>
    IN  IF ~Contains(current_relations, to_id)
        THEN LET patch == Append(current_relations, to_id)
             IN  IF RelationPatchOk(pgs, relation_property, patch)
                 THEN [pages |-> pages_update_relation(pgs, from_id, patch),
                       action |-> "linked", writes |-> 1]
                 ELSE LinkError(pgs)
        ELSE [pages |-> pgs, action |-> "already_linked", writes |-> 0]

\* NotionEngine.link_pages.  The result is the page itself; action names
\* the branch taken.  The page is patched in both branches.
link_pages(pgs, from_page_id, to_page_id, relation_property, up) ==
    IF ~up \/ from_page_id \notin 1..Len(pgs) THEN LinkError(pgs)
    ELSE
    LET page == PageProperties(pgs[from_page_id])
        current_relations ==
            Get(Get(page, relation_property, EmptyJson), "relation",
                List(<<>>)).items
        present == Contains(current_relations, to_page_id)
        patch == IF present THEN current_relations
                 ELSE Append(current_relations, to_page_id)
    IN  IF RelationPatchOk(pgs, relation_property, patch)
        THEN [pages |-> pages_update_relation(pgs, from_page_id, patch),
              action |-> IF present THEN "already_linked" ELSE "linked",
              writes |-> 1]
        ELSE LinkError(pgs)

LinkRequests ==
    [kind : {"link"}, variant : Variants,
     from_type : {"page", "database"}, to_type : {"page", "database"},
     from : 1..LinkPages, to : 1..LinkPages,
     relprop : {RelationProperty, "Missing"}]

\* the client sends req; the handler runs to completion
LinkCall(up) ==
    LET r == IF req.variant = "router"
             THEN link(pages, req.from_type, req.from, req.to_type, req.to,
                       req.relprop, up)
             ELSE link_pages(pages, req.from, req.to, req.relprop, up)
        repeat == last.kind = "call" /\ last.action # "error"
    IN  /\ pages' = r.pages
        /\ last' = [kind |-> "call",
                    action |-> r.action, writes |-> r.writes,
                    before |-> CountIn(pages[req.from].rel, req.to),
                    after |-> CountIn(r.pages[req.from].rel, req.to),
                    relBefore |-> pages[req.from].rel,
                    repeat |-> repeat,
                    firstAction |-> IF repeat THEN last.action ELSE "none",
                    firstBefore |-> IF repeat THEN last.before ELSE 0]
        /\ UNCHANGED <<req, outsideOps>>

LinkRequest == \E up \in BOOLEAN : LinkCall(up)

\* somebody else adds a target to, or clears, the relation of the from-page
ExternalRelationEdit ==
    /\ \/ \E j \in 1..LinkPages :
            /\ ~Contains(pages[req.from].rel, j)
            /\ pages' = [pages EXCEPT ![req.from].rel = Append(@, j)]
       \/ /\ pages[req.from].rel # <<>>
          /\ pages' = [pages EXCEPT ![req.from].rel = <<>>]
    /\ last' = [kind |-> "external"]
    /\ UNCHANGED <<req, outsideOps>>

InitLink ==
    /\ pages = [i \in 1..LinkPages |-> [props |-> BlankProps, rel |-> <<>>]]
    /\ req \in LinkRequests
    /\ last = NoCall
    /\ IdleBulk /\ IdleRetry /\ IdleQueue /\ IdleRows /\ IdleIdem /\ IdleRest

NextLink == LinkRequest \/ ExternalRelationEdit

SpecLink == InitLink /\ [][NextLink]_vars

\* ----------------------------------------------------------- bulk handlers
\* the entries a caller puts into a Bulk request
UpsertEntry(uval) ==
    [op |-> "upsert", uprop |-> "ExtId", uval |-> uval,
     properties |-> EmptyDict, blocks |-> FALSE]

LinkEntry ==
    [op |-> "link", from_type |-> "page", from |-> 1, to_type |-> "page",
     to |-> 2, relprop |-> RelationProperty]

BulkEntries ==
    {UpsertEntry("a"), UpsertEntry(None), LinkEntry,
     [op |-> "notion.request", method |-> "GET"],
     [op |-> "create_page", properties |-> EmptyDict],
     [op |-> "bogus"]}

Modes == {"stop_on_error", "continue_on_error"}

SeqsUpTo(S, n) == UNION {[1..k -> S] : k \in 0..n}

BulkRequests ==
    [kind : {"bulk"}, variant : Variants, mode : Modes,
     conn_known : BOOLEAN, ops : SeqsUpTo(BulkEntries, MaxOps)]

MinOf(S) == CHOOSE x \in S : \A y \in S : x <= y

\* the page a page_size = 1 query hands to an upsert entry
FirstMatch(pgs, prop, ftype, value) ==
    LET found == IF value = None THEN {}
                 ELSE databases_query(pgs, prop, ftype, value).results
    IN  IF found = {} THEN 0 ELSE MinOf(found)

\* one entry of POST /v1/bulk: _execute_upsert, _execute_link, the generic
\* passthrough, or ValueError for any other op
ExecuteRouterOp(pgs, e, up) ==
    IF e.op = "upsert"
    THEN upsert(pgs, e.uprop, e.uval, e.properties, e.blocks, up,
                FirstMatch(pgs, e.uprop, FilterType(e.uprop), e.uval))
    ELSE IF e.op = "link"
    THEN link(pgs, e.from_type, e.from, e.to_type, e.to, e.relprop, up)
    ELSE IF e.op = "notion.request"
    THEN IF e.method \in {"GET", "POST", "PATCH", "DELETE"} /\ up
         THEN [pages |-> pgs, action |-> "response", writes |-> 0]
         ELSE ErrorResult(pgs)
    ELSE ErrorResult(pgs)

\* page_create of the engine
page_create(pgs, properties, up) ==
    LET normalized_props == normalize_properties(properties)
    IN  IF up /\ WireOk(normalized_props)
        THEN [pages |-> pages_create(pgs, normalized_props),
              action |-> "created", writes |-> 1]
        ELSE ErrorResult(pgs)

\* one entry of NotionEngine.bulk_operations
ExecuteEngineOp(pgs, e, up) ==
    IF e.op = "upsert"
    THEN upsert_page(pgs, e.uprop, e.uval, e.properties, e.blocks, up,
                     FirstMatch(pgs, e.uprop, "rich_text", e.uval))
    ELSE IF e.op = "link"
    THEN link_pages(pgs, e.from, e.to, e.relprop, up)
    ELSE IF e.op = "create_page"
    THEN page_create(pgs, e.properties, up)
    ELSE ErrorResult(pgs)

\* the handler is entered: results = [], errors = []; the router resolves
\* the connection first and answers 500 when it is unknown
BulkStart ==
    /\ bulk.pc = "idle"
    /\ IF req.variant = "router" /\ ~req.conn_known
       THEN bulk' = [pc |-> "raised", i |-> 0, results |-> <<>>,
                     errors |-> <<>>, executed |-> <<>>]
       ELSE bulk' = [pc |-> "loop", i |-> 0, results |-> <<>>,
                     errors |-> <<>>, executed |-> <<>>]
    /\ UNCHANGED <<pages, req, outsideBulk>>

\* the record appended to results (and to errors when the entry failed)
ResultEntry_OneBased(i, op, ok) == [index |-> i + 1, op |-> op, success |-> ok]

ResultEntry(i, op, ok) == [index |-> i, op |-> op, success |-> ok]

\* whether the loop is left after an entry had outcome ok
BreaksLoop_AnyMode(mode, ok) == ~ok

BreaksLoop(mode, ok) == ~ok /\ mode = "stop_on_error"

\* one iteration of the for loop: entry i (counted from 0) is executed
BulkStep(up) ==
    /\ bulk.pc = "loop"
    /\ bulk.i < Len(req.ops)
    /\ LET e == req.ops[bulk.i + 1]
           r == IF req.variant = "router"
                THEN ExecuteRouterOp(pages, e, up)
                ELSE ExecuteEngineOp(pages, e, up)
           ok == r.action # "error"
           entry == ResultEntry(bulk.i, e.op, ok)
       IN  /\ pages' = r.pages
           /\ bulk' = [bulk EXCEPT
                  !.results = Append(@, entry),
                  !.errors = IF ok THEN @ ELSE Append(@, entry),
                  !.executed = Append(@, bulk.i),
                  !.i = bulk.i + 1,
                  !.pc = IF BreaksLoop(req.mode, ok) THEN "return" ELSE "loop"]
    /\ UNCHANGED <<req, outsideBulk>>

\* the loop is over: the summary is built and returned
BulkReturn ==
    /\ \/ bulk.pc = "return"
       \/ bulk.pc = "loop" /\ bulk.i = Len(req.ops)
    /\ bulk' = [pc |-> "done", i |-> bulk.i, results |-> bulk.results,
                errors |-> bulk.errors, executed |-> bulk.executed,
                total |-> Len(req.ops),
                succeeded |-> Cardinality({k \in 1..Len(bulk.results) :
                                              bulk.results[k].success}),
                failed |-> Len(bulk.errors)]
    /\ UNCHANGED <<pages, req, outsideBulk>>

InitBulk ==
    /\ pages = [i \in 1..LinkPages |-> [props |-> BlankProps, rel |-> <<>>]]
    /\ req \in BulkRequests
    /\ last = NoCall
    /\ IdleBulk /\ IdleRetry /\ IdleQueue /\ IdleRows /\ IdleIdem /\ IdleRest

NextBulk == BulkStart \/ (\E up \in BOOLEAN : BulkStep(up)) \/ BulkReturn

SpecBulk == InitBulk /\ [][NextBulk]_vars

\* ------------------------------------------------------------ typed client
\* error codes of the external service, and an exception that is not an
\* APIResponseError
ErrorCodes ==
    {"rate_limited", "service_unavailable", "validation_error",
     "object_not_found"}

OtherException == "connection_reset"

RetryableCodes == {"rate_limited", "service_unavailable"}

MaxRetriesExceeded == "Max retries exceeded"

RECURSIVE Pow2(_)
Pow2(n) == IF n = 0 THEN 1 ELSE 2 * Pow2(n - 1)

\* delay = self.retry_delay * (2 ** attempt)
Delay(retry_delay, attempt) == retry_delay * Pow2(attempt)

\* the condition under which an APIResponseError is retried
ShouldRetry_OffByOne(code, attempt, max_retries) ==
    code \in RetryableCodes /\ attempt < max_retries

ShouldRetry(code, attempt, max_retries) ==
    code \in RetryableCodes /\ attempt < max_retries - 1

\* func is awaited in iteration `attempt` of the for loop
RetryAttempt(outcome) ==
    /\ retry.pc = "call"
    /\ retry.attempt < retry.max_retries
    /\ IF outcome = "ok"
       THEN retry' = [retry EXCEPT !.pc = "returned", !.calls = @ + 1]
       ELSE IF outcome \in ErrorCodes
                /\ ShouldRetry(outcome, retry.attempt, retry.max_retries)
       THEN retry' = [retry EXCEPT
                !.pc = "sleep", !.calls = @ + 1,
                !.errors = Append(@, outcome),
                !.sleeps = Append(@, Delay(retry.retry_delay, retry.attempt))]
       ELSE retry' = [retry EXCEPT
                !.pc = "raised", !.calls = @ + 1,
                !.errors = Append(@, outcome),
                !.raised = outcome]
    /\ UNCHANGED outsideRetry

\* asyncio.sleep(delay) is over: continue with the next iteration
RetrySleepDone ==
    /\ retry.pc = "sleep"
    /\ retry' = [retry EXCEPT !.pc = "call", !.attempt = @ + 1]
    /\ UNCHANGED outsideRetry

\* the for loop ends without a return or a raise
RetryLoopEnd ==
    /\ retry.pc = "call"
    /\ retry.attempt >= retry.max_retries
    /\ retry' = [retry EXCEPT !.pc = "raised", !.raised = MaxRetriesExceeded]
    /\ UNCHANGED outsideRetry

InitRetry ==
    /\ retry \in [pc : {"call"}, attempt : {0}, calls : {0},
                  max_retries : 0..MaxRetriesBound,
                  retry_delay : 1..MaxRetryDelay,
                  errors : {<<>>}, sleeps : {<<>>}, raised : {None}]
    /\ IdleOps /\ IdleBulk /\ IdleQueue /\ IdleRows /\ IdleIdem /\ IdleRest

NextRetry ==
    \/ \E outcome \in {"ok"} \cup ErrorCodes \cup {OtherException} :
          RetryAttempt(outcome)
    \/ RetrySleepDone
    \/ RetryLoopEnd

SpecRetry == InitRetry /\ [][NextRetry]_vars

\* ------------------------------------------------------- in-memory queue
\* Progress is counted in hundredths: 0.0 is 0 and 1.0 is 100.  A timestamp
\* is None or "set".  Every await of the event loop is a step boundary; the
\* statements between two awaits run as one step.  statuses lists the values
\* assigned to job.status in program order.
JobKinds == {"bulk", "export"}
HandlerResults == {"result_a", "result_b"}
ExceptionTexts == {"boom"}

NoHandlerText(kind) ==
    [bulk |-> "No handler for job kind: bulk",
     export |-> "No handler for job kind: export"][kind]

\* Job.__init__
NewJob(kind) ==
    [kind |-> kind, status |-> "queued", progress |-> 0, output |-> None,
     error |-> None, started_at |-> None, completed_at |-> None,
     task |-> "scheduled", statuses |-> <<"queued">>,
     returned |-> None, raised |-> None]

\* job.status = "running"; job.started_at = utcnow()
Running(job) ==
    [job EXCEPT !.status = "running", !.started_at = "set",
                !.statuses = Append(@, "running")]

\* the handler returned result: try body after the await, then finally
Succeeded(job, result) ==
    [job EXCEPT !.status = "succeeded", !.progress = 100, !.output = result,
                !.completed_at = "set", !.task = "finished",
                !.statuses = Append(@, "succeeded"), !.returned = result]

\* an exception with the given text reached the except clause, then finally
Failed_NoFinally(job, text) ==
    [job EXCEPT !.status = "failed", !.error = text,
                !.task = "finished",
                !.statuses = Append(@, "failed"), !.raised = text]

Failed(job, text) ==
    [job EXCEPT !.status = "failed", !.error = text,
                !.completed_at = "set", !.task = "finished",
                !.statuses = Append(@, "failed"), !.raised = text]

\* SimpleJobQueue.register_handler
RegisterHandler(kind) ==
    /\ kind \notin handlers
    /\ handlers' = handlers \cup {kind}
    /\ UNCHANGED <<jobs, outsideQueue>>

\* SimpleJobQueue.enqueue: the job is stored and its task is scheduled
Enqueue(kind) ==
    /\ Len(jobs) < MaxJobs
    /\ jobs' = Append(jobs, NewJob(kind))
    /\ UNCHANGED <<handlers, outsideQueue>>

\* _process_job starts; without a handler it ends in the same step
ProcessStart_NoHandlerCheck(id) ==
    /\ jobs[id].task = "scheduled"
    /\ IF jobs[id].kind \in handlers
       THEN jobs' = [jobs EXCEPT ![id] = [Running(@) EXCEPT !.task = "awaiting"]]
       ELSE jobs' = [jobs EXCEPT ![id] = [Running(@) EXCEPT !.task = "finished"]]
    /\ UNCHANGED <<handlers, outsideQueue>>

ProcessStart(id) ==
    /\ jobs[id].task = "scheduled"
    /\ IF jobs[id].kind \in handlers
       THEN jobs' = [jobs EXCEPT ![id] = [Running(@) EXCEPT !.task = "awaiting"]]
       ELSE jobs' = [jobs EXCEPT ![id] =
                        Failed(Running(@), NoHandlerText(jobs[id].kind))]
    /\ UNCHANGED <<handlers, outsideQueue>>

\* the awaited handler reports progress on the job it was handed
HandlerProgress(id) ==
    /\ jobs[id].task = "awaiting"
    /\ jobs[id].progress = 0
    /\ jobs' = [jobs EXCEPT ![id].progress = 50]
    /\ UNCHANGED <<handlers, outsideQueue>>

\* the awaited handler returns
HandlerReturns(id, result) ==
    /\ jobs[id].task = "awaiting"
    /\ jobs' = [jobs EXCEPT ![id] = Succeeded(@, result)]
    /\ UNCHANGED <<handlers, outsideQueue>>

\* the awaited handler raises an Exception
HandlerRaises(id, text) ==
    /\ jobs[id].task = "awaiting"
    /\ jobs' = [jobs EXCEPT ![id] = Failed(@, text)]
    /\ UNCHANGED <<handlers, outsideQueue>>

InitQueue ==
    /\ jobs = <<>>
    /\ handlers = {}
    /\ IdleOps /\ IdleBulk /\ IdleRetry /\ IdleRows /\ IdleIdem /\ IdleRest

NextQueue ==
    \/ \E kind \in JobKinds : RegisterHandler(kind)
    \/ \E kind \in JobKinds : Enqueue(kind)
    \/ \E id \in 1..Len(jobs) : ProcessStart(id)
    \/ \E id \in 1..Len(jobs) : HandlerProgress(id)
    \/ \E id \in 1..Len(jobs), result \in HandlerResults :
          HandlerReturns(id, result)
    \/ \E id \in 1..Len(jobs), text \in ExceptionTexts : HandlerRaises(id, text)

SpecQueue == InitQueue /\ [][NextQueue]_vars

\* the task of job id is run by the event loop
TaskStarts(id) == id <= Len(jobs) /\ ProcessStart(id)

\* the handler awaited for job id terminates, by returning or by raising
HandlerTerminates(id) ==
    /\ id <= Len(jobs)
    /\ \/ \E result \in HandlerResults : HandlerReturns(id, result)
       \/ \E text \in ExceptionTexts : HandlerRaises(id, text)

\* the queue under an event loop that runs every task it was handed, with
\* handlers that terminate
SpecQueueLive ==
    /\ SpecQueue
    /\ \A id \in 1..MaxJobs : WF_vars(TaskStarts(id))
    /\ \A id \in 1..MaxJobs : WF_vars(HandlerTerminates(id))

\* ------------------------------------------------- persisted jobs (/v1/jobs)
\* the kinds a caller names in POST /v1/jobs; only "bulk" has an execution path
PersistedKinds == {"bulk", "export"}

\* what the caller puts into args when the kind is bulk: the entries, the
\* mode, and whether args validates as a BulkRequest (connection_id and ops
\* are required fields of that model)
JobRequests ==
    [kind : {"job"}, variant : {"router"}, mode : Modes, conn_known : BOOLEAN,
     args_valid : BOOLEAN, ops : SeqsUpTo(BulkEntries, MaxOps)]

\* bulk_operations has not been called by the request in flight
BulkNotCalled == [pc |-> "none"]

\* Job(kind, status = "queued", progress = 0.0, args); progress in hundredths
NewRow(kind) ==
    [kind |-> kind, status |-> "queued", progress |-> 0, output |-> Absent,
     error |-> None, completed_at |-> None, statuses |-> <<"queued">>]

RowRunning(row) ==
    [row EXCEPT !.status = "running", !.progress = 10,
                !.statuses = Append(@, "running")]

\* bulk_result.dict()
BulkResult(b) ==
    [form |-> "dict", ok |-> Len(b.errors) = 0, total |-> b.total,
     succeeded |-> b.succeeded, failed |-> b.failed]

RowSucceeded(row, out) ==
    [row EXCEPT !.status = "succeeded", !.progress = 100, !.output = out,
                !.completed_at = "utcnow", !.statuses = Append(@, "succeeded")]

RowFailed(row, text) ==
    [row EXCEPT !.status = "failed", !.error = text,
                !.completed_at = "utcnow", !.statuses = Append(@, "failed")]

\* the row is added and committed in state queued
JobInsert(kind) ==
    /\ cjob.pc \in {"idle", "responded", "raised", "cancelled"}
    /\ Len(rows) < MaxRows
    /\ rows' = Append(rows, NewRow(kind))
    /\ cjob' = [pc |-> "inserted", id |-> Len(rows) + 1]
    /\ bulk' = BulkNotCalled
    /\ UNCHANGED <<pages, req, outsideRows>>

\* any kind but bulk is answered at once; for bulk the args are validated
\* (a failure leaves through the outer except with a 500) and the row is
\* committed as running
JobDispatch ==
    /\ cjob.pc = "inserted"
    /\ IF rows[cjob.id].kind # "bulk"
       THEN /\ cjob' = [cjob EXCEPT !.pc = "responded"]
            /\ rows' = rows
       ELSE IF ~req.args_valid
       THEN /\ cjob' = [cjob EXCEPT !.pc = "raised"]
            /\ rows' = rows
       ELSE /\ cjob' = [cjob EXCEPT !.pc = "running"]
            /\ rows' = [rows EXCEPT ![cjob.id] = RowRunning(@)]
    /\ UNCHANGED <<pages, req, bulk, outsideRows>>

\* get_core_engine: an unknown connection raises, the row is committed as
\* failed and the request answers 500; otherwise bulk_operations is called
JobEngine ==
    /\ cjob.pc = "running"
    /\ IF ~req.conn_known
       THEN /\ rows' = [rows EXCEPT ![cjob.id] = RowFailed(@, "404")]
            /\ cjob' = [cjob EXCEPT !.pc = "raised"]
            /\ bulk' = bulk
       ELSE /\ rows' = rows
            /\ cjob' = [cjob EXCEPT !.pc = "bulk"]
            /\ bulk' = NoBulk
    /\ UNCHANGED <<pages, req, outsideRows>>

\* bulk_operations is over: its response is stored and the row committed as
\* succeeded, or its exception is stored and the row committed as failed
JobFinish_FailsOnErrors ==
    /\ cjob.pc = "bulk"
    /\ bulk.pc \in {"done", "raised"}
    /\ IF bulk.pc = "done" /\ bulk.failed = 0
       THEN /\ rows' = [rows EXCEPT ![cjob.id] = RowSucceeded(@, BulkResult(bulk))]
            /\ cjob' = [cjob EXCEPT !.pc = "responded"]
       ELSE /\ rows' = [rows EXCEPT ![cjob.id] = RowFailed(@, "500")]
            /\ cjob' = [cjob EXCEPT !.pc = "raised"]
    /\ UNCHANGED <<pages, req, bulk, outsideRows>>

JobFinish ==
    /\ cjob.pc = "bulk"
    /\ bulk.pc \in {"done", "raised"}
    /\ IF bulk.pc = "done"
       THEN /\ rows' = [rows EXCEPT ![cjob.id] = RowSucceeded(@, BulkResult(bulk))]
            /\ cjob' = [cjob EXCEPT !.pc = "responded"]
       ELSE /\ rows' = [rows EXCEPT ![cjob.id] = RowFailed(@, "500")]
            /\ cjob' = [cjob EXCEPT !.pc = "raised"]
    /\ UNCHANGED <<pages, req, bulk, outsideRows>>

InitRows ==
    /\ pages = [i \in 1..LinkPages |-> [props |-> BlankProps, rel |-> <<>>]]
    /\ req \in JobRequests
    /\ last = NoCall
    /\ bulk = BulkNotCalled
    /\ IdleRetry /\ IdleQueue /\ IdleRows /\ IdleIdem /\ IdleRest

NextRows ==
    \/ \E kind \in PersistedKinds : JobInsert(kind)
    \/ JobDispatch
    \/ JobEngine
    \/ JobFinish
    \/ BulkStart
    \/ \E up \in BOOLEAN : BulkStep(up)
    \/ BulkReturn

SpecRows == InitRows /\ [][NextRows]_vars

\* the same under the stack with TimeoutMiddleware: asyncio.wait_for cancels
\* the request while it awaits bulk_operations.  CancelledError is not an
\* Exception, so the except branch that commits the row as failed is passed
\* by and the row is left as it was committed last
JobCancelled_Caught ==
    /\ cjob.pc = "bulk"
    /\ bulk.pc = "loop"
    /\ rows' = [rows EXCEPT ![cjob.id] = RowFailed(@, "cancelled")]
    /\ cjob' = [cjob EXCEPT !.pc = "cancelled"]
    /\ bulk' = BulkNotCalled
    /\ UNCHANGED <<pages, req, outsideRows>>

JobCancelled ==
    /\ cjob.pc = "bulk"
    /\ bulk.pc = "loop"
    /\ rows' = rows
    /\ cjob' = [cjob EXCEPT !.pc = "cancelled"]
    /\ bulk' = BulkNotCalled
    /\ UNCHANGED <<pages, req, outsideRows>>

NextRowsTimeout == NextRows \/ JobCancelled

SpecRowsTimeout == InitRows /\ [][NextRowsTimeout]_vars

\* --------------------------- idempotency and audit services, the tool call
IDEMPOTENCY_TTL_SECONDS == 3600

JsonNull == [kind |-> "null"]

\* x or {}
OrEmpty(x) == IF x.kind = "null" THEN EmptyJson ELSE x

\* sha256 over the key-sorted JSON of method, path, body or {} and
\* params or {}; a digest is represented by the data it is taken of
generate_request_hash(method, path, body, params) ==
    [method |-> method, path |-> path, body |-> OrEmpty(body),
     params |-> OrEmpty(params)]

\* db_ok: the database answers; any exception makes the check return None
check_idempotency_NoHashCheck(table, idempotency_key, method, path, body, params, utcnow, db_ok) ==
    LET key_record == table[idempotency_key]
    IN  IF ~db_ok THEN [idem |-> table, result |-> Absent]
        ELSE IF key_record = Absent THEN [idem |-> table, result |-> Absent]
        ELSE IF key_record.expires_at < utcnow
        THEN [idem |-> [table EXCEPT ![idempotency_key] = Absent],
              result |-> Absent]
        ELSE [idem |-> table, result |-> key_record.response_body]

check_idempotency(table, idempotency_key, method, path, body, params, utcnow, db_ok) ==
    LET key_record == table[idempotency_key]
        request_hash == generate_request_hash(method, path, body, params)
    IN  IF ~db_ok THEN [idem |-> table, result |-> Absent]
        ELSE IF key_record = Absent THEN [idem |-> table, result |-> Absent]
        ELSE IF key_record.expires_at < utcnow
        THEN [idem |-> [table EXCEPT ![idempotency_key] = Absent],
              result |-> Absent]
        ELSE IF key_record.request_hash # request_hash
        THEN [idem |-> table, result |-> Absent]
        ELSE [idem |-> table, result |-> key_record.response_body]

\* the row is updated or inserted and committed; any exception is logged and
\* rolled back.  failed: nothing was stored; raised: what reaches the caller.
\* The ids of the connections table are UUID strings, so conn_uuid is set.
store_idempotency_NoTTL(table, idempotency_key, connection_id, method, path, body, params, response_body, utcnow, db_ok) ==
    LET request_hash == generate_request_hash(method, path, body, params)
        expires_at == utcnow
        key_record == [form |-> "row", connection_id |-> connection_id,
                       request_hash |-> request_hash,
                       response_body |-> response_body,
                       expires_at |-> expires_at]
    IN  IF db_ok
        THEN [idem |-> [table EXCEPT ![idempotency_key] = key_record],
              failed |-> FALSE, raised |-> FALSE]
        ELSE [idem |-> table, failed |-> TRUE, raised |-> FALSE]

store_idempotency(table, idempotency_key, connection_id, method, path, body, params, response_body, utcnow, db_ok) ==
    LET request_hash == generate_request_hash(method, path, body, params)
        expires_at == utcnow + IDEMPOTENCY_TTL_SECONDS
        key_record == [form |-> "row", connection_id |-> connection_id,
                       request_hash |-> request_hash,
                       response_body |-> response_body,
                       expires_at |-> expires_at]
    IN  IF db_ok
        THEN [idem |-> [table EXCEPT ![idempotency_key] = key_record],
              failed |-> FALSE, raised |-> FALSE]
        ELSE [idem |-> table, failed |-> TRUE, raised |-> FALSE]

\* the columns of the audit_logs table and the keywords log_audit passes to
\* the AuditLog constructor, which rejects a keyword that is not a column
AuditLogColumns ==
    {"id", "connection_id", "request_id", "actor", "method", "endpoint",
     "notion_ids", "summary", "success", "error_code", "error_message",
     "created_at"}

AuditLogKeywords ==
    {"connection_id", "request_id", "actor", "method", "path", "notion_ids",
     "summary", "success"}

\* the audit row is built, added and committed; without the except clause
\* the exception reaches the caller
log_audit_NoExcept(table, entry, db_ok) ==
    IF AuditLogKeywords \subseteq AuditLogColumns /\ db_ok
    THEN [audit |-> Append(table, entry), failed |-> FALSE, raised |-> FALSE]
    ELSE [audit |-> table, failed |-> TRUE, raised |-> TRUE]

\* the audit row is built, added and committed; any exception is logged and
\* rolled back
log_audit(table, entry, db_ok) ==
    IF AuditLogKeywords \subseteq AuditLogColumns /\ db_ok
    THEN [audit |-> Append(table, entry), failed |-> FALSE, raised |-> FALSE]
    ELSE [audit |-> table, failed |-> TRUE, raised |-> FALSE]

AuditEntry(actor, method, path, success) ==
    [actor |-> actor, method |-> method, path |-> path, success |-> success]

\* the connections the connections table holds
ConnectionIds == {"c1"}

Tools == {"notion.upsert", "notion.unknown"}

Arguments(value) == Dict([value |-> value])

\* tool_name, arguments, connection_id (None: neither in the query nor in the
\* arguments) and the Idempotency-Key header of a tool call
McpRequests ==
    [tool : Tools, arguments : {Arguments(v) : v \in Values},
     conn : {"c1", "c9", None}, key : IdemKeys \cup {None}]

ToolPath(tool_name) == <<"/mcp/tools/", tool_name>>

HashOf(r) == generate_request_hash("POST", ToolPath(r.tool), r.arguments, JsonNull)

NoResult == [action |-> "none", page |-> 0]

\* the dispatch on tool_name: the upsert tool repeats the logic of
\* POST /v1/upsert, any other name raises ValueError
ToolResult(pgs, r, up) ==
    IF r.tool = "notion.upsert"
    THEN LET value == r.arguments.fields.value
             pick == FirstMatch(pgs, "ExtId", FilterType("ExtId"), value)
             u == upsert(pgs, "ExtId", value, EmptyDict, FALSE, up, pick)
         IN  [pages |-> u.pages,
              result |-> [action |-> u.action,
                          page |-> IF u.action = "created" THEN Len(u.pages)
                                   ELSE IF u.action = "updated" THEN pick ELSE 0],
              error |-> IF u.action = "error" THEN "NotionAPIError" ELSE None]
    ELSE [pages |-> pgs, result |-> [action |-> "error", page |-> 0],
          error |-> "ValueError"]

\* the answers of the two endpoints
McpOk(result) ==
    [status |-> 200,
     body |-> [ok |-> TRUE, result |-> result, meta |-> "request_id"]]

StoredBody(result) == [ok |-> TRUE, result |-> result]

StandardResponse(result) ==
    [status |-> 200,
     body |-> [ok |-> TRUE, result |-> result, error |-> None,
               meta |-> "request_id"]]

ErrorResponse(status) == [status |-> status, body |-> Absent]

ErrorStatus(error) == IF error = "NotionAPIError" THEN 503 ELSE 500

\* the call answered last, when it was a tool call with a key that succeeded;
\* stored tells whether its response was stored under the key
Previous ==
    IF /\ call.pc = "done"
       /\ call.endpoint = "mcp"
       /\ call.executed
       /\ call.result.action # "error"
       /\ call.request.key # None
    THEN [form |-> "succeeded", request |-> call.request, result |-> call.result,
          storedAt |-> call.storedAt, stored |-> ~call.storeFailed]
    ELSE Absent

\* the call answered last was this tool call, with a key, and its tool failed
PreviousFailed(r) ==
    /\ call.pc = "done"
    /\ call.endpoint = "mcp"
    /\ call.executed
    /\ call.request = r
    /\ r.key # None
    /\ call.response.status # 200

\* a request as it is received: nothing checked, executed or stored yet
Received(endpoint, r) ==
    [pc |-> "received", endpoint |-> endpoint, request |-> r,
     prev |-> Previous, prevFailed |-> PreviousFailed(r), checkFault |-> FALSE,
     checked |-> FALSE, checkedAt |-> now, rowAtCheck |-> Absent,
     rowAfterCheck |-> Absent, cached |-> Absent, replayed |-> FALSE,
     executed |-> FALSE, result |-> NoResult, auditBefore |-> audit,
     auditFailed |-> FALSE, storeFailed |-> FALSE, storedAt |-> now,
     response |-> ErrorResponse(0)]

\* POST /mcp/tools/call up to the idempotency check: 400 without a
\* connection_id, the cached response when the check returns one
McpCheck_StaleClock(r, db_ok) ==
    /\ call.pc \in {"idle", "done"}
    /\ LET c == Received("mcp", r)
       IN  IF r.conn = None
           THEN /\ call' = [c EXCEPT !.pc = "done", !.response = ErrorResponse(400)]
                /\ idem' = idem
           ELSE IF r.key = None
           THEN /\ call' = [c EXCEPT !.pc = "execute"]
                /\ idem' = idem
           ELSE LET chk == check_idempotency(idem, r.key, "POST", ToolPath(r.tool),
                                             r.arguments, JsonNull, 0, db_ok)
                    seen == [c EXCEPT !.checked = TRUE,
                                      !.checkFault = ~db_ok,
                                      !.rowAtCheck = idem[r.key],
                                      !.rowAfterCheck = chk.idem[r.key],
                                      !.cached = chk.result]
                IN  /\ idem' = chk.idem
                    /\ call' = IF chk.result # Absent
                               THEN [seen EXCEPT !.pc = "done", !.replayed = TRUE,
                                        !.response = [status |-> 200,
                                                      body |-> chk.result]]
                               ELSE [seen EXCEPT !.pc = "execute"]
    /\ UNCHANGED <<pages, audit, now, ticks, outsideIdem>>

McpCheck(r, db_ok) ==
    /\ call.pc \in {"idle", "done"}
    /\ LET c == Received("mcp", r)
       IN  IF r.conn = None
           THEN /\ call' = [c EXCEPT !.pc = "done", !.response = ErrorResponse(400)]
                /\ idem' = idem
           ELSE IF r.key = None
           THEN /\ call' = [c EXCEPT !.pc = "execute"]
                /\ idem' = idem
           ELSE LET chk == check_idempotency(idem, r.key, "POST", ToolPath(r.tool),
                                             r.arguments, JsonNull, now, db_ok)
                    seen == [c EXCEPT !.checked = TRUE,
                                      !.checkFault = ~db_ok,
                                      !.rowAtCheck = idem[r.key],
                                      !.rowAfterCheck = chk.idem[r.key],
                                      !.cached = chk.result]
                IN  /\ idem' = chk.idem
                    /\ call' = IF chk.result # Absent
                               THEN [seen EXCEPT !.pc = "done", !.replayed = TRUE,
                                        !.response = [status |-> 200,
                                                      body |-> chk.result]]
                               ELSE [seen EXCEPT !.pc = "execute"]
    /\ UNCHANGED <<pages, audit, now, ticks, outsideIdem>>

\* the engine is resolved (404 for an unknown connection), the tool runs and
\* the audit entry is written: on success the request goes on to the store,
\* or returns when it carries no key; on an exception of the tool the failure
\* is audited and the request answers with an error
McpExecute_StoresFailure(up, db_ok) ==
    /\ call.pc = "execute"
    /\ LET r == call.request
           t == ToolResult(pages, r, up)
           ok == log_audit(audit, AuditEntry("chatgpt_mcp", "mcp_tool", r.tool, TRUE), db_ok)
           ko == log_audit(audit, AuditEntry("chatgpt_mcp", "mcp_tool", r.tool, FALSE), db_ok)
       IN  IF r.conn \notin ConnectionIds
           THEN /\ call' = [call EXCEPT !.pc = "done", !.response = ErrorResponse(404)]
                /\ UNCHANGED <<pages, audit>>
           ELSE IF t.error # None
           THEN /\ pages' = t.pages
                /\ audit' = ko.audit
                /\ call' = [call EXCEPT
                               !.pc = IF r.key = None THEN "done" ELSE "store",
                               !.executed = TRUE,
                               !.result = t.result, !.auditFailed = ko.failed,
                               !.response = ErrorResponse(ErrorStatus(t.error))]
           ELSE IF ok.raised
           THEN /\ pages' = t.pages
                /\ audit' = ko.audit
                /\ call' = [call EXCEPT !.pc = "done", !.executed = TRUE,
                               !.result = t.result, !.auditFailed = TRUE,
                               !.response = ErrorResponse(500)]
           ELSE /\ pages' = t.pages
                /\ audit' = ok.audit
                /\ call' = [call EXCEPT
                               !.pc = IF r.key = None THEN "done" ELSE "store",
                               !.executed = TRUE, !.result = t.result,
                               !.auditFailed = ok.failed,
                               !.response = IF r.key = None THEN McpOk(t.result)
                                            ELSE @]
    /\ UNCHANGED <<idem, now, ticks, outsideIdem>>

McpExecute(up, db_ok) ==
    /\ call.pc = "execute"
    /\ LET r == call.request
           t == ToolResult(pages, r, up)
           ok == log_audit(audit, AuditEntry("chatgpt_mcp", "mcp_tool", r.tool, TRUE), db_ok)
           ko == log_audit(audit, AuditEntry("chatgpt_mcp", "mcp_tool", r.tool, FALSE), db_ok)
       IN  IF r.conn \notin ConnectionIds
           THEN /\ call' = [call EXCEPT !.pc = "done", !.response = ErrorResponse(404)]
                /\ UNCHANGED <<pages, audit>>
           ELSE IF t.error # None
           THEN /\ pages' = t.pages
                /\ audit' = ko.audit
                /\ call' = [call EXCEPT !.pc = "done", !.executed = TRUE,
                               !.result = t.result, !.auditFailed = ko.failed,
                               !.response = ErrorResponse(ErrorStatus(t.error))]
           ELSE IF ok.raised
           THEN /\ pages' = t.pages
                /\ audit' = ko.audit
                /\ call' = [call EXCEPT !.pc = "done", !.executed = TRUE,
                               !.result = t.result, !.auditFailed = TRUE,
                               !.response = ErrorResponse(500)]
           ELSE /\ pages' = t.pages
                /\ audit' = ok.audit
                /\ call' = [call EXCEPT
                               !.pc = IF r.key = None THEN "done" ELSE "store",
                               !.executed = TRUE, !.result = t.result,
                               !.auditFailed = ok.failed,
                               !.response = IF r.key = None THEN McpOk(t.result)
                                            ELSE @]
    /\ UNCHANGED <<idem, now, ticks, outsideIdem>>

\* the response is stored under the key and the request returns
McpStore(db_ok) ==
    /\ call.pc = "store"
    /\ LET r == call.request
           st == store_idempotency(idem, r.key, r.conn, "POST", ToolPath(r.tool),
                                   r.arguments, JsonNull,
                                   StoredBody(call.result), now, db_ok)
           ko == log_audit(audit, AuditEntry("chatgpt_mcp", "mcp_tool", r.tool, FALSE), db_ok)
       IN  /\ idem' = st.idem
           /\ audit' = IF st.raised THEN ko.audit ELSE audit
           /\ call' = [call EXCEPT !.pc = "done", !.storeFailed = st.failed,
                          !.storedAt = now,
                          !.response = IF st.raised THEN ErrorResponse(500)
                                       ELSE McpOk(call.result)]
    /\ UNCHANGED <<pages, now, ticks, outsideIdem>>

\* POST /v1/upsert under the write-audit decorator: the handler runs, the
\* decorator writes the success or the failure entry and hands on the
\* handler's response or exception
V1Upsert(value, conn, up, db_ok) ==
    /\ call.pc \in {"idle", "done"}
    /\ LET r == [tool |-> "v1.upsert", arguments |-> Arguments(value),
                 conn |-> conn, key |-> None]
           c == Received("v1", r)
           pick == FirstMatch(pages, "ExtId", FilterType("ExtId"), value)
           u == upsert(pages, "ExtId", value, EmptyDict, FALSE, up, pick)
           result == [action |-> u.action,
                      page |-> IF u.action = "created" THEN Len(u.pages)
                               ELSE IF u.action = "updated" THEN pick ELSE 0]
           ok == log_audit(audit, AuditEntry("chatgpt_action", "POST", "/v1/upsert", TRUE), db_ok)
           ko == log_audit(audit, AuditEntry("chatgpt_action", "POST", "/v1/upsert", FALSE), db_ok)
       IN  IF conn \notin ConnectionIds
           THEN /\ pages' = pages
                /\ audit' = ko.audit
                /\ call' = [c EXCEPT !.pc = "done", !.auditFailed = ko.failed,
                               !.response = ErrorResponse(404)]
           ELSE IF u.action = "error"
           THEN /\ pages' = u.pages
                /\ audit' = ko.audit
                /\ call' = [c EXCEPT !.pc = "done", !.executed = TRUE,
                               !.result = result, !.auditFailed = ko.failed,
                               !.response = ErrorResponse(503)]
           ELSE IF ok.raised
           THEN /\ pages' = u.pages
                /\ audit' = ko.audit
                /\ call' = [c EXCEPT !.pc = "done", !.executed = TRUE,
                               !.result = result, !.auditFailed = TRUE,
                               !.response = ErrorResponse(500)]
           ELSE /\ pages' = u.pages
                /\ audit' = ok.audit
                /\ call' = [c EXCEPT !.pc = "done", !.executed = TRUE,
                               !.result = result, !.auditFailed = ok.failed,
                               !.response = StandardResponse(result)]
    /\ UNCHANGED <<idem, now, ticks, outsideIdem>>

\* time passes: a second, a whole time-to-live, or a second more than that
Tick(seconds) ==
    /\ ticks < MaxTicks
    /\ now' = now + seconds
    /\ ticks' = ticks + 1
    /\ UNCHANGED <<pages, idem, audit, call, outsideIdem>>

InitIdem ==
    /\ pages = <<>>
    /\ req = NoCall
    /\ last = NoCall
    /\ IdleBulk /\ IdleRetry /\ IdleQueue /\ IdleRows /\ IdleIdem /\ IdleRest

NextIdem ==
    \/ \E r \in McpRequests, db_ok \in BOOLEAN : McpCheck(r, db_ok)
    \/ \E up \in BOOLEAN, db_ok \in BOOLEAN : McpExecute(up, db_ok)
    \/ \E db_ok \in BOOLEAN : McpStore(db_ok)
    \/ \E value \in Values, conn \in {"c1", "c9"}, up \in BOOLEAN, db_ok \in BOOLEAN :
           V1Upsert(value, conn, up, db_ok)
    \/ \E seconds \in {1, IDEMPOTENCY_TTL_SECONDS, IDEMPOTENCY_TTL_SECONDS + 1} :
           Tick(seconds)

SpecIdem == InitIdem /\ [][NextIdem]_vars

\* ------------------------------------------------------- timeout wrapping
DEFAULT_TIMEOUT == 30
JOB_TIMEOUT == 60

\* the middleware main.py installs, and the same stack with the timeout
\* middleware added to it
MainStack == {"CORSMiddleware", "add_request_id_middleware"}

Stacks == {MainStack, MainStack \cup {"TimeoutMiddleware"}}

\* request paths, as their segments
Paths == {<<"upsert">>, <<"search">>, <<"v1", "bulk">>, <<"jobs", "j1">>}

\* a handler either waits at an await, where it can be cancelled, or runs a
\* synchronous call of the engine inside the coroutine, which keeps the event
\* loop busy until it returns
HandlerKinds == {"awaiting", "blocking"}

\* the bound dispatch chooses for a path
TimeoutFor(path) ==
    IF Contains(path, "jobs") \/ Contains(path, "bulk") THEN JOB_TIMEOUT
    ELSE DEFAULT_TIMEOUT

\* the 504 answer of dispatch
TimeoutResponse ==
    [status |-> 504, ok |-> FALSE, code |-> "timeout", meta |-> "request_id"]

HandlerResponse == [status |-> 200, ok |-> TRUE, code |-> None, meta |-> "request_id"]

Wrapped == "TimeoutMiddleware" \in tmo.stack

\* a request arrives and its handler starts
TimeoutReceive(path, kind) ==
    /\ tmo.pc \in {"idle", "answered"}
    /\ tmo' = [pc |-> "running", stack |-> tmo.stack, path |-> path,
               kind |-> kind, elapsed |-> 0, cancelled |-> FALSE,
               response |-> HandlerResponse]
    /\ UNCHANGED outsideTimeout

\* a second passes while the handler runs; under wait_for an awaiting handler
\* does not run past the bound
TimeoutSecond ==
    /\ tmo.pc = "running"
    /\ tmo.elapsed < MaxElapsed
    /\ ~(Wrapped /\ tmo.kind = "awaiting" /\ tmo.elapsed >= TimeoutFor(tmo.path))
    /\ tmo' = [tmo EXCEPT !.elapsed = @ + 1]
    /\ UNCHANGED outsideTimeout

\* the handler returns.  When a blocking handler returns after the bound the
\* timer and the result are both due: the request is answered with either
HandlerDone(late504) ==
    /\ tmo.pc = "running"
    /\ late504 => Wrapped /\ tmo.kind = "blocking" /\ tmo.elapsed >= TimeoutFor(tmo.path)
    /\ tmo' = [tmo EXCEPT !.pc = "answered",
                          !.response = IF late504 THEN TimeoutResponse
                                       ELSE HandlerResponse]
    /\ UNCHANGED outsideTimeout

\* wait_for expires while the handler waits: the handler is cancelled and
\* dispatch answers 504
TimeoutExpires ==
    /\ tmo.pc = "running"
    /\ Wrapped
    /\ tmo.kind = "awaiting"
    /\ tmo.elapsed >= TimeoutFor(tmo.path)
    /\ tmo' = [tmo EXCEPT !.pc = "answered", !.cancelled = TRUE,
                          !.response = TimeoutResponse]
    /\ UNCHANGED outsideTimeout

InitTimeout ==
    /\ tmo \in [pc : {"idle"}, stack : Stacks]
    /\ IdleButTimeout

NextTimeout ==
    \/ \E path \in Paths, kind \in HandlerKinds : TimeoutReceive(path, kind)
    \/ TimeoutSecond
    \/ \E late504 \in BOOLEAN : HandlerDone(late504)
    \/ TimeoutExpires

SpecTimeout == InitTimeout /\ [][NextTimeout]_vars

\* ------------------------------------------------------------ bearer guard
\* settings.ACTION_API_TOKEN: unset, empty, or a token
ConfiguredTokens == {None, "", "tok-a", "tok-b"}

NoHeader == [scheme |-> None, credentials |-> None]

\* the Authorization header of a request
AuthHeaders ==
    {NoHeader} \cup
    [scheme : {"Bearer", "bearer", "Basic"}, credentials : {"", "tok-a", "tok-b"}]

SchemeLower == [Bearer |-> "bearer", bearer |-> "bearer", Basic |-> "basic"]

Rejected(status, www) == [status |-> status, www |-> www, token |-> None]

\* security = HTTPBearer(auto_error=True): a missing header, another scheme
\* or empty credentials are refused with 403 before the dependant runs
HTTPBearer(header) ==
    IF header = NoHeader \/ header.credentials = "" THEN Rejected(403, None)
    ELSE IF SchemeLower[header.scheme] # "bearer" THEN Rejected(403, None)
    ELSE [status |-> 200, www |-> None, token |-> header.credentials]

verify_bearer_token_NoConfigCheck(configured, credentials) ==
    IF credentials.status # 200 THEN credentials
    ELSE IF credentials.token # configured THEN Rejected(401, "Bearer")
    ELSE credentials

\* the dependency of a guarded route
verify_bearer_token(configured, credentials) ==
    IF credentials.status # 200 THEN credentials
    ELSE IF configured = None \/ configured = "" THEN Rejected(503, None)
    ELSE IF credentials.token # configured THEN Rejected(401, "Bearer")
    ELSE credentials

\* a request to a guarded route passes the guard or is answered by it
AuthRequest(header) ==
    /\ auth.pc \in {"idle", "answered"}
    /\ LET g == verify_bearer_token(auth.config, HTTPBearer(header))
       IN  auth' = [auth EXCEPT !.pc = IF g.status = 200 THEN "handler" ELSE "answered",
                                !.header = header, !.status = g.status,
                                !.www = g.www, !.ran = FALSE,
                                !.refused = IF g.status = 200 THEN @
                                            ELSE @ \cup {<<header, g.status>>}]
    /\ UNCHANGED outsideAuth

\* the handler of the guarded route runs and answers
AuthHandler ==
    /\ auth.pc = "handler"
    /\ auth.handled < MaxHandled
    /\ auth' = [auth EXCEPT !.pc = "answered", !.ran = TRUE,
                            !.handled = @ + 1]
    /\ UNCHANGED outsideAuth

InitAuth ==
    /\ auth \in [pc : {"idle"}, config : ConfiguredTokens, header : {NoHeader},
                 status : {0}, www : {None}, ran : {FALSE}, handled : {0},
                 refused : {{}}]
    /\ IdleButAuth

NextAuth == (\E header \in AuthHeaders : AuthRequest(header)) \/ AuthHandler

SpecAuth == InitAuth /\ [][NextAuth]_vars

\* ------------------------------------- request id, envelope, error handlers
\* the values uuid4 can give to a request
RequestIds == {"r1", "r2", "r3"}

\* how a handler ends: it returns its envelope, or raises a domain exception,
\* an HTTPException (as routers/jobs.py does for an unknown job), a request
\* validation error, or any other exception
Outcomes ==
    {"ok", "NotionMCPException", "HTTPException", "RequestValidationError",
     "Exception"}

\* create_error_response
create_error_response(request_id, code, message, details) ==
    [form |-> "envelope", ok |-> FALSE, result |-> None,
     error |-> [code |-> code, message |-> message, details |-> details],
     request_id |-> request_id]

\* StandardResponse(ok=True, result=..., meta={"request_id": ...})
SuccessEnvelope(request_id) ==
    [form |-> "envelope", ok |-> TRUE, result |-> "result", error |-> None,
     request_id |-> request_id]

\* the body the framework's own handlers give to an HTTPException and to a
\* request validation error
DetailBody == [form |-> "detail"]

\* the response the exception handlers registered in main.py, or the
\* framework's defaults where none is registered, build for an outcome
HandlerOutput(outcome, request_id) ==
    IF outcome = "ok"
    THEN [status |-> 200, body |-> SuccessEnvelope(request_id)]
    ELSE IF outcome = "NotionMCPException"
    THEN [status |-> 502,
          body |-> create_error_response(request_id, "notion_api_error",
                                         "message", "details")]
    ELSE IF outcome = "HTTPException"
    THEN [status |-> 404, body |-> DetailBody]
    ELSE IF outcome = "RequestValidationError"
    THEN [status |-> 422, body |-> DetailBody]
    ELSE [status |-> 500,
          body |-> create_error_response(request_id, "internal_error",
                                         "An unexpected error occurred",
                                         "details")]

\* add_request_id_middleware up to call_next: the id is drawn and stored
HttpReceive(id) ==
    /\ http.pc \in {"idle", "answered"}
    /\ http' = [pc |-> "handler", request_id |-> id, outcome |-> "none",
                wrote |-> {}, xrid |-> None, status |-> 0,
                body |-> DetailBody]
    /\ UNCHANGED <<logrows, outsideHttp>>

\* a write handler logs its operation with request.state.request_id
log_operation ==
    /\ http.pc = "handler"
    /\ Len(logrows) < MaxLogRows
    /\ logrows' = Append(logrows, [request_id |-> http.request_id])
    /\ http' = [http EXCEPT !.wrote = @ \cup {Len(logrows) + 1}]
    /\ UNCHANGED outsideHttp

\* the handler ends.  What it returns, and what the handlers of the exception
\* middleware make of an exception, passes back through
\* add_request_id_middleware, which sets X-Request-ID; any other exception
\* passes through its except clause and is answered outside it
HttpAnswer(outcome) ==
    /\ http.pc = "handler"
    /\ LET out == HandlerOutput(outcome, http.request_id)
       IN  http' = [http EXCEPT !.pc = "answered", !.outcome = outcome,
                       !.status = out.status, !.body = out.body,
                       !.xrid = IF outcome = "Exception" THEN None
                                ELSE http.request_id]
    /\ UNCHANGED <<logrows, outsideHttp>>

InitHttp ==
    /\ http = [pc |-> "idle"]
    /\ logrows = <<>>
    /\ IdleButHttp

NextHttp ==
    \/ \E id \in RequestIds : HttpReceive(id)
    \/ log_operation
    \/ \E outcome \in Outcomes : HttpAnswer(outcome)

SpecHttp == InitHttp /\ [][NextHttp]_vars

\* --------------------------------------------------------- event streams
MaxPings == 3

\* mcp_event_stream of routers/mcp.py and the event_stream of mcp/server.py
StreamVariants == {"router", "server"}

\* the chunks the generator yields before its loop, in program order
Preamble(variant) ==
    IF variant = "router"
    THEN <<"event: connected", "data: connected", "event: tools", "data: tools">>
    ELSE <<"data: connection">>

\* the chunks of one keep-alive
KeepAlive(variant) ==
    IF variant = "router" THEN <<"event: ping", "data: timestamp">>
    ELSE <<": keepalive">>

\* the chunks of the except Exception branch
ErrorChunks(variant) ==
    IF variant = "router" THEN <<"event: error", "data: error">>
    ELSE <<"data: error">>

\* GET /mcp/sse: the streaming response starts to iterate the generator
mcp_sse_get(variant) ==
    /\ sse.pc = "idle"
    /\ sse' = [pc |-> "yield", variant |-> variant, peer |-> "here",
               todo |-> Preamble(variant), next |-> "check", out |-> <<>>,
               pings |-> 0, observed |-> FALSE, seen |-> 0]
    /\ UNCHANGED outsideSse

\* the generator runs to its next yield and the chunk is sent
Yield ==
    /\ sse.pc = "yield"
    /\ sse' = [sse EXCEPT !.out = Append(sse.out, Head(sse.todo)),
                          !.todo = Tail(sse.todo),
                          !.pc = IF Len(sse.todo) = 1 THEN sse.next ELSE "yield"]
    /\ UNCHANGED outsideSse

\* the head of the loop: an exception goes to the except branch, a peer seen
\* to be gone breaks the loop, otherwise a keep-alive is sent
is_disconnected_NoBreak(raises) ==
    /\ sse.pc = "check"
    /\ raises \/ sse.pings < MaxPings
    /\ sse' = IF raises
              THEN [sse EXCEPT !.pc = "yield", !.todo = ErrorChunks(sse.variant),
                               !.next = "ended"]
              ELSE [sse EXCEPT !.pc = "yield", !.todo = KeepAlive(sse.variant),
                               !.next = "sleep", !.pings = @ + 1,
                               !.observed = (sse.peer = "gone"),
                               !.seen = Len(sse.out)]
    /\ UNCHANGED outsideSse

is_disconnected(raises) ==
    /\ sse.pc = "check"
    /\ raises \/ sse.peer = "gone" \/ sse.pings < MaxPings
    /\ sse' = IF raises
              THEN [sse EXCEPT !.pc = "yield", !.todo = ErrorChunks(sse.variant),
                               !.next = "ended"]
              ELSE IF sse.peer = "gone"
              THEN [sse EXCEPT !.pc = "ended", !.observed = TRUE,
                               !.seen = Len(sse.out)]
              ELSE [sse EXCEPT !.pc = "yield", !.todo = KeepAlive(sse.variant),
                               !.next = "sleep", !.pings = @ + 1]
    /\ UNCHANGED outsideSse

\* asyncio.sleep(30) returns
Sleep ==
    /\ sse.pc = "sleep"
    /\ sse' = [sse EXCEPT !.pc = "check"]
    /\ UNCHANGED outsideSse

\* the peer goes away
PeerDisconnect ==
    /\ sse.pc \in {"yield", "check", "sleep"}
    /\ sse.peer = "here"
    /\ sse' = [sse EXCEPT !.peer = "gone"]
    /\ UNCHANGED outsideSse

\* the response is torn down while the generator waits at a yield or in the
\* sleep: CancelledError is caught (router) or propagates (server), and the
\* generator yields nothing more either way
Cancelled ==
    /\ sse.pc \in {"yield", "sleep"}
    /\ sse.peer = "gone"
    /\ sse' = [sse EXCEPT !.pc = "ended", !.todo = <<>>]
    /\ UNCHANGED outsideSse

StreamStep ==
    \/ Yield
    \/ \E raises \in BOOLEAN : is_disconnected(raises)
    \/ Sleep

InitSse ==
    /\ sse = [pc |-> "idle"]
    /\ IdleButSse

NextSse ==
    \/ \E variant \in StreamVariants : mcp_sse_get(variant)
    \/ Yield
    \/ \E raises \in BOOLEAN : is_disconnected(raises)
    \/ Sleep
    \/ PeerDisconnect
    \/ Cancelled

\* the event loop keeps running the generator while the response is open
SpecSse == InitSse /\ [][NextSse]_vars /\ WF_vars(StreamStep)

\* ------------------------------------------------------ JSON-RPC messages
\* the bodies POSTed to /mcp/sse: bytes that are not JSON, JSON that is not
\* an object, and objects with or without method, id and params
RpcMethods == {"initialize", "tools/list", "tools/call", "resources/list", None}
RpcIds == {"id-7", None}
RpcBodies ==
    {[json |-> "malformed"], [json |-> "array"]}
        \cup [json : {"object"}, method : RpcMethods, id : RpcIds,
              params : {"object", "null"}]

RpcRequests == [content_type : {"application/json", "text/plain"}, body : RpcBodies]

\* message.get("id") of the message the request carries, None when it has none
IdOf(body) == IF body.json = "object" THEN body.id ELSE None

MethodOf(body) == IF body.json = "object" THEN body.method ELSE None

RpcResult(id) == [jsonrpc |-> "2.0", id |-> id, form |-> "result"]

RpcError(id, code) == [jsonrpc |-> "2.0", id |-> id, form |-> "error", code |-> code]

\* POST /mcp/sse arrives
RpcReceive(r) ==
    /\ rpc.pc \in {"idle", "answered"}
    /\ rpc' = [pc |-> "read", request |-> r, bound |-> FALSE, raised |-> FALSE,
               response |-> [status |-> 0]]
    /\ UNCHANGED outsideRpc

\* request.json() or json.loads of the body, then the log line that calls
\* message.get: bytes that are not JSON raise before message is assigned, a
\* message that is not an object has no get
RpcRead ==
    /\ rpc.pc = "read"
    /\ rpc' = IF rpc.request.body.json = "malformed"
              THEN [rpc EXCEPT !.pc = "except", !.raised = TRUE]
              ELSE IF rpc.request.body.json = "array"
              THEN [rpc EXCEPT !.pc = "except", !.raised = TRUE, !.bound = TRUE]
              ELSE [rpc EXCEPT !.pc = "dispatch", !.bound = TRUE]
    /\ UNCHANGED outsideRpc

\* execute_tool: what it does before its try block can raise (setup_raises);
\* inside the block every exception becomes an error dictionary it returns
execute_tool(setup_raises, tool_fails) ==
    IF setup_raises THEN [raised |-> TRUE]
    ELSE [raised |-> FALSE, result |-> IF tool_fails THEN "error" ELSE "page"]

\* the dispatch on method
RpcDispatch(setup_raises, tool_fails) ==
    /\ rpc.pc = "dispatch"
    /\ LET message == rpc.request.body
           answer(body) == [rpc EXCEPT !.pc = "answered",
                                       !.response = [status |-> 200, body |-> body]]
           failed == [rpc EXCEPT !.pc = "except", !.raised = TRUE]
       IN  rpc' = IF message.method = "tools/call"
                  THEN IF message.params = "null" THEN failed
                       ELSE IF execute_tool(setup_raises, tool_fails).raised
                       THEN failed
                       ELSE answer(RpcResult(message.id))
                  ELSE IF message.method \in {"initialize", "tools/list"}
                  THEN answer(RpcResult(message.id))
                  ELSE answer(RpcError(message.id, -32601))
    /\ UNCHANGED outsideRpc

\* the except branch reads message: when the exception came before message
\* was assigned the read raises UnboundLocalError out of the handler, and
\* the application's handler for Exception answers
RpcExcept ==
    /\ rpc.pc = "except"
    /\ rpc' = [rpc EXCEPT
                 !.pc = "answered",
                 !.response =
                    IF ~rpc.bound
                    THEN [status |-> 500,
                          body |-> create_error_response(
                                       "request_id", "internal_error",
                                       "An unexpected error occurred", "details")]
                    ELSE [status |-> 200,
                          body |-> RpcError(IdOf(rpc.request.body), -32603)]]
    /\ UNCHANGED outsideRpc

InitRpc ==
    /\ rpc = [pc |-> "idle"]
    /\ IdleButRpc

NextRpc ==
    \/ \E r \in RpcRequests : RpcReceive(r)
    \/ RpcRead
    \/ \E setup_raises \in BOOLEAN, tool_fails \in BOOLEAN :
           RpcDispatch(setup_raises, tool_fails)
    \/ RpcExcept

SpecRpc == InitRpc /\ [][NextRpc]_vars

\* -------------------------------------------------------- OAuth callbacks
MaxCallbacks == 3

\* the requests served at the same time by the one event loop
CallbackSlots == {1, 2}

\* the workspace ids the external service reports; None: it reports none
Workspaces == {"w1", "w2"}

\* str(uuid.uuid4()): a fresh identifier for every draw
Uuid(n) == <<"uuid", ToString(n)>>

\* db.query(Connection).filter(Connection.workspace_id == workspace_id).first()
FirstByWorkspace(table, workspace_id) ==
    LET hits == {i \in 1..Len(table) : table[i].workspace_id = <<"reported", workspace_id>>}
    IN  IF hits = {} THEN 0 ELSE CHOOSE i \in hits : \A j \in hits : i <= j

\* the lookup by workspace id and the update in place or the insert of a
\* row; n numbers the callback, whose ciphertexts and fresh ids it stands for
SaveConnection_AlwaysInsert(table, workspace_id, n) ==
    Append(table, [id |-> n,
                  workspace_id |-> IF workspace_id # None
                                   THEN <<"reported", workspace_id>>
                                   ELSE Uuid(n),
                  access_token_enc |-> n])

SaveConnection(table, workspace_id, n) ==
    LET found == IF workspace_id # None THEN FirstByWorkspace(table, workspace_id)
                 ELSE 0
    IN  IF found # 0
        THEN [table EXCEPT ![found].access_token_enc = n]
        ELSE Append(table, [id |-> n,
                           workspace_id |-> IF workspace_id # None
                                            THEN <<"reported", workspace_id>>
                                            ELSE Uuid(n),
                           access_token_enc |-> n])

\* GET /oauth/callback arrives and awaits the token exchange
oauth_callback(p) ==
    /\ p \notin DOMAIN callbacks
    /\ started < MaxCallbacks
    /\ started' = started + 1
    /\ callbacks' = [q \in DOMAIN callbacks \cup {p} |->
                        IF q = p THEN [pc |-> "exchange", n |-> started + 1,
                                       workspace_id |-> None]
                        ELSE callbacks[q]]
    /\ UNCHANGED <<connections, outsideOauth>>

\* the token exchange answers: anything but a 200 with an access token ends
\* the callback with 400
TokenExchange(p, ok) ==
    /\ p \in DOMAIN callbacks
    /\ callbacks[p].pc = "exchange"
    /\ callbacks' = IF ok THEN [callbacks EXCEPT ![p].pc = "users/me"]
                    ELSE [q \in DOMAIN callbacks \ {p} |-> callbacks[q]]
    /\ UNCHANGED <<connections, started, outsideOauth>>

\* GET /v1/users/me answers, with or without a workspace id
WorkspaceInfo(p, workspace_id) ==
    /\ p \in DOMAIN callbacks
    /\ callbacks[p].pc = "users/me"
    /\ callbacks' = [callbacks EXCEPT ![p].pc = "save",
                                      ![p].workspace_id = workspace_id]
    /\ UNCHANGED <<connections, started, outsideOauth>>

\* the rest of the handler has no await: lookup, update or insert, commit and
\* response run without another callback in between; a failure of the commit
\* is rolled back
CommitConnection(p, commit_ok) ==
    /\ p \in DOMAIN callbacks
    /\ callbacks[p].pc = "save"
    /\ connections' = IF commit_ok
                      THEN SaveConnection(connections, callbacks[p].workspace_id,
                                          callbacks[p].n)
                      ELSE connections
    /\ callbacks' = [q \in DOMAIN callbacks \ {p} |-> callbacks[q]]
    /\ UNCHANGED <<started, outsideOauth>>

InitOauth ==
    /\ connections = <<>>
    /\ callbacks = [p \in {} |-> 0]
    /\ started = 0
    /\ IdleButOauth

NextOauth ==
    \/ \E p \in CallbackSlots : oauth_callback(p)
    \/ \E p \in CallbackSlots, ok \in BOOLEAN : TokenExchange(p, ok)
    \/ \E p \in CallbackSlots, w \in Workspaces \cup {None} : WorkspaceInfo(p, w)
    \/ \E p \in CallbackSlots, commit_ok \in BOOLEAN : CommitConnection(p, commit_ok)

SpecOauth == InitOauth /\ [][NextOauth]_vars

\* --------------------------------------------- normalize and simplify back
MaxStrLen == 3
MaxListLen == 2

\* Python values: a string is the sequence of its characters
Str(chars) == [kind |-> "str", chars |-> chars]
Bool(b) == [kind |-> "bool", truth |-> b]
Datetime(iso) == [kind |-> "datetime", iso |-> iso]

Strings == {Str(c) : c \in SeqsUpTo({"a", "b"}, MaxStrLen)}

\* the simplified values a caller writes for a property of each type
RoundTripTypes == {"checkbox", "title", "select", "multi_select", "date"}

SimpleValues(prop_type) ==
    IF prop_type = "checkbox" THEN {Bool(TRUE), Bool(FALSE), JsonNull}
    ELSE IF prop_type = "multi_select"
    THEN {List(l) : l \in SeqsUpTo({Str(<<>>), Str(<<"a">>)}, MaxListLen)}
             \cup {JsonNull}
    ELSE IF prop_type = "date"
    THEN Strings \cup {Datetime(<<"a">>), JsonNull}
    ELSE Strings \cup {JsonNull}

\* a dict with the one key given
Dict1(key, value) == Dict([k \in {key} |-> value])

\* the full normalize_property_value, over Python values, for the types of
\* the round trip
normalize_property_value_full(prop_type, value) ==
    IF value.kind = "null" THEN EmptyJson
    ELSE IF prop_type = "title"
    THEN IF value.kind = "str"
         THEN Dict1("title", List(<<Dict([type |-> Str(<<"text">>),
                                          text |-> Dict1("content", value)])>>))
         ELSE Dict1("title", value)
    ELSE IF prop_type = "select"
    THEN IF value.kind = "str" THEN Dict1("select", Dict1("name", value))
         ELSE Dict1("select", value)
    ELSE IF prop_type = "multi_select"
    THEN IF value.kind = "list"
         THEN Dict1("multi_select",
                    List([i \in 1..Len(value.items) |->
                             IF value.items[i].kind = "str"
                             THEN Dict1("name", value.items[i])
                             ELSE value.items[i]]))
         ELSE Dict1("multi_select", value)
    ELSE IF prop_type = "date"
    THEN IF value.kind = "str" THEN Dict1("date", Dict1("start", value))
         ELSE IF value.kind = "datetime"
         THEN Dict1("date", Dict1("start", Str(value.iso)))
         ELSE Dict1("date", value)
    ELSE IF prop_type = "checkbox"
    THEN Dict1("checkbox", Bool(value.kind = "bool" /\ value.truth))
    ELSE Dict1(prop_type, value)

\* "".join(item.get("plain_text", "") for item in rich_text_array)
RECURSIVE JoinPlainText(_)
JoinPlainText(items) ==
    IF items = <<>> THEN <<>>
    ELSE Get(Head(items), "plain_text", Str(<<>>)).chars \o JoinPlainText(Tail(items))

extract_plain_text(rich_text_array) ==
    IF rich_text_array.items = <<>> THEN Str(<<>>)
    ELSE Str(JoinPlainText(rich_text_array.items))

\* bool(x) of a value read from a dict
Truthy(x) ==
    IF x.kind = "null" THEN FALSE
    ELSE IF x.kind = "dict" THEN DOMAIN x.fields # {}
    ELSE TRUE

simplify_property_value(notion_property) ==
    LET prop_type == Get(notion_property, "type", JsonNull)
        has(key) == key \in DOMAIN notion_property.fields
    IN  IF prop_type = Str(<<"title">>) /\ has("title")
        THEN extract_plain_text(notion_property.fields["title"])
        ELSE IF prop_type = Str(<<"select">>)
        THEN LET select_val == Get(notion_property, "select", JsonNull)
             IN  IF Truthy(select_val) THEN Get(select_val, "name", JsonNull)
                 ELSE JsonNull
        ELSE IF prop_type = Str(<<"multi_select">>)
        THEN LET items == Get(notion_property, "multi_select", List(<<>>)).items
             IN  List([i \in 1..Len(items) |-> items[i].fields["name"]])
        ELSE IF prop_type = Str(<<"date">>)
        THEN LET date_val == Get(notion_property, "date", JsonNull)
             IN  IF Truthy(date_val) THEN Get(date_val, "start", JsonNull)
                 ELSE JsonNull
        ELSE IF prop_type = Str(<<"checkbox">>)
        THEN Get(notion_property, "checkbox", Bool(FALSE))
        ELSE notion_property

\* the type names as Python strings
TypeName(prop_type) ==
    IF prop_type = "checkbox" THEN Str(<<"checkbox">>)
    ELSE IF prop_type = "title" THEN Str(<<"title">>)
    ELSE IF prop_type = "select" THEN Str(<<"select">>)
    ELSE IF prop_type = "multi_select" THEN Str(<<"multi_select">>)
    ELSE Str(<<"date">>)

\* the property object {type: t, t: w} the external service returns for {t: w}
AsProperty(prop_type, normalized) ==
    Dict([k \in {"type"} \cup DOMAIN normalized.fields |->
             IF k = "type" THEN TypeName(prop_type) ELSE normalized.fields[k]])

\* a caller picks a type and a simplified value
TripStart(prop_type, value) ==
    /\ trip.pc \in {"idle", "simplified"}
    /\ trip' = [pc |-> "drawn", type |-> prop_type, value |-> value,
                normalized |-> EmptyJson, back |-> JsonNull]
    /\ UNCHANGED outsideNorm

TripNormalize ==
    /\ trip.pc = "drawn"
    /\ trip' = [trip EXCEPT !.pc = "normalized",
                            !.normalized = normalize_property_value_full(trip.type, trip.value)]
    /\ UNCHANGED outsideNorm

TripSimplify ==
    /\ trip.pc = "normalized"
    /\ trip' = [trip EXCEPT !.pc = "simplified",
                            !.back = simplify_property_value(
                                         AsProperty(trip.type, trip.normalized))]
    /\ UNCHANGED outsideNorm

InitNorm ==
    /\ trip = [pc |-> "idle"]
    /\ IdleButNorm

NextNorm ==
    \/ \E t \in RoundTripTypes : \E v \in SimpleValues(t) : TripStart(t, v)
    \/ TripNormalize
    \/ TripSimplify

SpecNorm == InitNorm /\ [][NextNorm]_vars

\* ------------------------------------- concurrent uses of an idempotency key
MaxRaced == 3

\* the tool calls in flight at the same time
RaceSlots == {1, 2}

RaceHashes == {"h1", "h2"}

\* db.query(IdempotencyKey).filter(IdempotencyKey.key == key).first()
FirstByKey(table, key) ==
    LET hits == {i \in 1..Len(table) : table[i].key = key}
    IN  IF hits = {} THEN 0 ELSE CHOOSE i \in hits : \A j \in hits : i <= j

\* a tool call with an Idempotency-Key arrives; n numbers the request and
\* stands for its response
RaceStart(p, key, hash) ==
    /\ racers[p].pc \in {"idle", "done"}
    /\ raced < MaxRaced
    /\ raced' = raced + 1
    /\ racers' = [racers EXCEPT ![p] = [pc |-> "check", key |-> key, hash |-> hash,
                                        n |-> raced + 1, found |-> 0,
                                        outcome |-> "none"]]
    /\ UNCHANGED <<idrows, commits, outsideRace>>

\* check_idempotency: a row of the key with the hash of the request answers
\* the call, anything else lets it go on to the tool
RaceCheck(p) ==
    /\ racers[p].pc = "check"
    /\ LET i == FirstByKey(idrows, racers[p].key)
       IN  racers' = IF i # 0 /\ idrows[i].request_hash = racers[p].hash
                     THEN [racers EXCEPT ![p].pc = "done", ![p].outcome = "replayed"]
                     ELSE [racers EXCEPT ![p].pc = "tool"]
    /\ UNCHANGED <<idrows, commits, raced, outsideRace>>

\* the awaited tool returns or raises; only a success goes on to the store
RaceTool(p, ok) ==
    /\ racers[p].pc = "tool"
    /\ racers' = IF ok THEN [racers EXCEPT ![p].pc = "lookup"]
                 ELSE [racers EXCEPT ![p].pc = "done", ![p].outcome = "error"]
    /\ UNCHANGED <<idrows, commits, raced, outsideRace>>

\* store_idempotency up to the lookup of the existing row
RaceLookup(p) ==
    /\ racers[p].pc = "lookup"
    /\ racers' = [racers EXCEPT ![p].pc = "commit",
                                ![p].found = FirstByKey(idrows, racers[p].key)]
    /\ UNCHANGED <<idrows, commits, raced, outsideRace>>

\* store_idempotency from the update or the insert to the commit: the insert
\* of a second row of a key violates the primary key; every exception is
\* logged and rolled back
RaceCommit_NoPrimaryKey(p, db_ok) ==
    /\ racers[p].pc = "commit"
    /\ LET me == racers[p]
           row == [key |-> me.key, request_hash |-> me.hash, response_body |-> me.n]
       IN  IF ~db_ok
           THEN /\ idrows' = idrows
                /\ commits' = commits
                /\ racers' = [racers EXCEPT ![p].pc = "done", ![p].outcome = "rolled back"]
           ELSE IF me.found # 0
           THEN /\ idrows' = [idrows EXCEPT ![me.found] = row]
                /\ commits' = Append(commits, [n |-> me.n, key |-> me.key])
                /\ racers' = [racers EXCEPT ![p].pc = "done", ![p].outcome = "updated"]
           ELSE /\ idrows' = Append(idrows, row)
                /\ commits' = Append(commits, [n |-> me.n, key |-> me.key])
                /\ racers' = [racers EXCEPT ![p].pc = "done", ![p].outcome = "inserted"]
    /\ UNCHANGED <<raced, outsideRace>>

RaceCommit(p, db_ok) ==
    /\ racers[p].pc = "commit"
    /\ LET me == racers[p]
           row == [key |-> me.key, request_hash |-> me.hash, response_body |-> me.n]
       IN  IF ~db_ok
           THEN /\ idrows' = idrows
                /\ commits' = commits
                /\ racers' = [racers EXCEPT ![p].pc = "done", ![p].outcome = "rolled back"]
           ELSE IF me.found # 0
           THEN /\ idrows' = [idrows EXCEPT ![me.found] = row]
                /\ commits' = Append(commits, [n |-> me.n, key |-> me.key])
                /\ racers' = [racers EXCEPT ![p].pc = "done", ![p].outcome = "updated"]
           ELSE IF FirstByKey(idrows, me.key) # 0
           THEN /\ idrows' = idrows
                /\ commits' = commits
                /\ racers' = [racers EXCEPT ![p].pc = "done", ![p].outcome = "duplicate"]
           ELSE /\ idrows' = Append(idrows, row)
                /\ commits' = Append(commits, [n |-> me.n, key |-> me.key])
                /\ racers' = [racers EXCEPT ![p].pc = "done", ![p].outcome = "inserted"]
    /\ UNCHANGED <<raced, outsideRace>>

InitRace ==
    /\ idrows = <<>>
    /\ racers = [p \in RaceSlots |-> [pc |-> "idle"]]
    /\ commits = <<>>
    /\ raced = 0
    /\ IdleButRace

NextRace ==
    \/ \E p \in RaceSlots, key \in {"k1", "k2"}, hash \in RaceHashes :
           RaceStart(p, key, hash)
    \/ \E p \in RaceSlots : RaceCheck(p)
    \/ \E p \in RaceSlots, ok \in BOOLEAN : RaceTool(p, ok)
    \/ \E p \in RaceSlots : RaceLookup(p)
    \/ \E p \in RaceSlots, db_ok \in BOOLEAN : RaceCommit(p, db_ok)

SpecRace == InitRace /\ [][NextRace]_vars

\* ------------------------------------------------- concurrent link_pages
MaxLinkCalls == 3

\* the link_pages calls in flight at the same time, all on the same
\* from-page and relation property
LinkSlots == {1, 2}

LinkTargets == {"t1", "t2"}

\* link_pages is called
LinkStart(p, to_page_id) ==
    /\ linkers[p].pc \in {"idle", "done"}
    /\ linkcalls < MaxLinkCalls
    /\ linkcalls' = linkcalls + 1
    /\ linkers' = [linkers EXCEPT ![p] = [pc |-> "page_get", to |-> to_page_id,
                                          current_relations |-> <<>>,
                                          action |-> "none"]]
    /\ UNCHANGED <<relation_list, outsideLinkRace>>

\* await page_get returns the page, or raises; the target is appended to
\* the list read unless it is in it
LinkGet(p, up) ==
    /\ linkers[p].pc = "page_get"
    /\ linkers' = IF ~up
                  THEN [linkers EXCEPT ![p].pc = "done", ![p].action = "error"]
                  ELSE [linkers EXCEPT
                          ![p].pc = "page_update",
                          ![p].action = IF Contains(relation_list, linkers[p].to)
                                        THEN "already_linked" ELSE "linked",
                          ![p].current_relations =
                              IF Contains(relation_list, linkers[p].to) THEN relation_list
                              ELSE Append(relation_list, linkers[p].to)]
    /\ UNCHANGED <<relation_list, linkcalls, outsideLinkRace>>

\* await page_update: the list of the call replaces the list of the page
LinkUpdate_Merges(p, up) ==
    /\ linkers[p].pc = "page_update"
    /\ IF ~up
       THEN /\ relation_list' = relation_list
            /\ linkers' = [linkers EXCEPT ![p].pc = "done", ![p].action = "error"]
       ELSE /\ relation_list' = IF Contains(relation_list, linkers[p].to) THEN relation_list
                           ELSE Append(relation_list, linkers[p].to)
            /\ linkers' = [linkers EXCEPT ![p].pc = "done"]
    /\ UNCHANGED <<linkcalls, outsideLinkRace>>

LinkUpdate(p, up) ==
    /\ linkers[p].pc = "page_update"
    /\ IF ~up
       THEN /\ relation_list' = relation_list
            /\ linkers' = [linkers EXCEPT ![p].pc = "done", ![p].action = "error"]
       ELSE /\ relation_list' = linkers[p].current_relations
            /\ linkers' = [linkers EXCEPT ![p].pc = "done"]
    /\ UNCHANGED <<linkcalls, outsideLinkRace>>

InitLinkRace ==
    /\ relation_list = <<>>
    /\ linkers = [p \in LinkSlots |-> [pc |-> "idle"]]
    /\ linkcalls = 0
    /\ IdleButLinkRace

NextLinkRace ==
    \/ \E p \in LinkSlots, to \in LinkTargets : LinkStart(p, to)
    \/ \E p \in LinkSlots, up \in BOOLEAN : LinkGet(p, up)
    \/ \E p \in LinkSlots, up \in BOOLEAN : LinkUpdate(p, up)

SpecLinkRace == InitLinkRace /\ [][NextLinkRace]_vars

\* C1: POST /v1/upsert sent twice with the same Idempotency-Key and the same
\* body issues exactly one upstream write, and the second response equals
\* the first: the repeated call writes nothing and reports the first action.
C1_IdempotentReplay ==
    (/\ req.kind = "upsert" /\ req.variant = "router" /\ req.key # None
     /\ last.kind = "call" /\ last.repeat)
    => (last.writes = 0 /\ last.action = last.firstAction)

\* C5: two successive Upsert calls with the same unique key and no external
\* change in between yield created then updated and leave exactly one page
\* whose unique property equals unique_value.
C5_UpsertTwice ==
    (/\ req.kind = "upsert"
     /\ last.kind = "call" /\ last.repeat /\ last.action # "error"
     /\ last.firstBefore = 0)
    => (/\ last.firstAction = "created"
        /\ last.action = "updated"
        /\ last.after = 1)

\* C6: two Link calls with the same (from, to, relation_property) yield
\* linked then already_linked, and after any successful call the relation
\* list of the from-page holds exactly one entry for the to-page.
C6_LinkTwice ==
    /\ (/\ req.kind = "link"
        /\ last.kind = "call" /\ last.repeat /\ last.action # "error"
        /\ last.firstBefore = 0)
       => (last.firstAction = "linked" /\ last.action = "already_linked")
    /\ (req.kind = "link" /\ last.kind = "call" /\ last.action # "error")
       => last.after = 1

\* the indices of the entries of a request that fail when executed, as
\* recorded in results
FailedIn(results) == {k \in 1..Len(results) : ~results[k].success}

\* C3: under stop_on_error no entry after the first failing one is executed
\* and results holds exactly the entries up to and including it; under
\* continue_on_error every entry is executed, one result per operation.
C3_BulkModes ==
    (req.kind = "bulk" /\ bulk.pc = "done") =>
        /\ Len(bulk.results) = Len(bulk.executed)
        /\ req.mode = "stop_on_error" =>
              /\ \A k \in FailedIn(bulk.results) : k = Len(bulk.results)
              /\ FailedIn(bulk.results) = {} => Len(bulk.results) = Len(req.ops)
        /\ req.mode = "continue_on_error" =>
              /\ Len(bulk.results) = Len(req.ops)
              /\ bulk.executed = [k \in 1..Len(req.ops) |-> k - 1]

\* a stop_on_error bulk that stopped before its last entry, and a
\* continue_on_error bulk that ran past a failing entry
C3_Witness ==
    /\ req.kind = "bulk" /\ bulk.pc = "done"
    /\ \/ /\ req.mode = "stop_on_error"
          /\ Len(bulk.results) = 2 /\ Len(req.ops) = 3
          /\ bulk.results[1].success /\ ~bulk.results[2].success
       \/ /\ req.mode = "continue_on_error"
          /\ Len(bulk.results) = 3
          /\ ~bulk.results[2].success /\ bulk.results[3].success

\* the subsequence of the failed entries of results
RECURSIVE FailedSubseq(_)
FailedSubseq(results) ==
    IF results = <<>> THEN <<>>
    ELSE IF Head(results).success THEN FailedSubseq(Tail(results))
    ELSE <<Head(results)>> \o FailedSubseq(Tail(results))

\* C4: entries run in the supplied order; results lists the executed entries
\* in ascending original index, each with the index and op of its operation;
\* errors is the subsequence of failed entries of results, and
\* succeeded + failed = length of results.
C4_BulkOrder ==
    (req.kind = "bulk" /\ bulk.pc \in {"loop", "return", "done"}) =>
        /\ bulk.executed = [k \in 1..Len(bulk.executed) |-> k - 1]
        /\ \A k \in 1..Len(bulk.results) :
              /\ bulk.results[k].index = bulk.executed[k]
              /\ bulk.results[k].op = req.ops[bulk.results[k].index + 1].op
        /\ bulk.errors = FailedSubseq(bulk.results)
        /\ bulk.pc = "done" =>
              /\ bulk.succeeded + bulk.failed = Len(bulk.results)
              /\ bulk.total = Len(req.ops)

\* a finished bulk of three entries with a failure between two successes
C4_Witness ==
    /\ req.kind = "bulk" /\ bulk.pc = "done"
    /\ Len(bulk.results) = 3 /\ Len(bulk.errors) = 1
    /\ bulk.errors[1].index = 1
    /\ bulk.succeeded = 2 /\ bulk.failed = 1

\* C7: the typed client retries only on rate_limited or
\* service_unavailable, sleeps retry_delay * 2^attempt before attempt + 1,
\* makes at most max_retries calls, and raises the upstream error itself on
\* any other error or when the attempts are used up.
C7_RetryPolicy ==
    (retry.pc # "idle") =>
        /\ retry.calls <= retry.max_retries
        /\ \A k \in 1..Len(retry.errors) :
              (k < Len(retry.errors) \/ retry.pc \in {"sleep", "call", "returned"})
                  => retry.errors[k] \in RetryableCodes
        /\ Len(retry.sleeps) =
              Len(retry.errors) - (IF retry.pc = "raised" /\ retry.calls > 0
                                   THEN 1 ELSE 0)
        /\ \A k \in 1..Len(retry.sleeps) :
              retry.sleeps[k] = retry.retry_delay * Pow2(k - 1)
        /\ (retry.pc = "raised" /\ retry.calls > 0) =>
              /\ retry.raised = retry.errors[Len(retry.errors)]
              /\ \/ retry.raised \notin RetryableCodes
                 \/ retry.calls = retry.max_retries
        /\ (retry.pc = "sleep") => retry.calls < retry.max_retries

\* three rate-limited attempts: two sleeps of d and 2d, then the error
C7_Witness ==
    /\ retry.pc = "raised" /\ retry.max_retries = 3 /\ retry.calls = 3
    /\ retry.raised = "rate_limited"
    /\ retry.sleeps = <<retry.retry_delay, 2 * retry.retry_delay>>

IsPrefix(p, q) == Len(p) <= Len(q) /\ \A k \in 1..Len(p) : p[k] = q[k]

Answered(id) == cjob.id # id \/ cjob.pc \in {"responded", "raised"}

\* C9: a persisted job is inserted as queued; a bulk job then moves to running
\* (progress 0.1) and from there to succeeded (progress 1.0, output stored,
\* completion time set) or failed (error stored, completion time set), and by
\* the time its request is answered it has done so; no other transition
\* occurs; a job of any other kind stays queued
C9_PersistedJob ==
    \A id \in 1..Len(rows) :
        LET row == rows[id] IN
        /\ \/ IsPrefix(row.statuses, <<"queued", "running", "succeeded">>)
           \/ IsPrefix(row.statuses, <<"queued", "running", "failed">>)
        /\ row.status = "running" => row.progress = 10
        /\ row.status = "succeeded" =>
               /\ row.progress = 100
               /\ row.output # Absent
               /\ row.completed_at # None
        /\ row.status = "failed" => row.error # None /\ row.completed_at # None
        /\ row.kind # "bulk" => row.statuses = <<"queued">>
        /\ row.kind = "bulk" /\ Answered(id) => row.status \in {"succeeded", "failed"}


\* the tool call in flight or just answered went through the idempotency
\* check with a key whose row was stored, unexpired and of another request
Mismatch ==
    /\ call.pc # "idle"
    /\ call.checked
    /\ call.rowAtCheck # Absent
    /\ ~(call.rowAtCheck.expires_at < call.checkedAt)
    /\ call.rowAtCheck.request_hash # HashOf(call.request)

\* C2 as stated: on a stored, unexpired key whose hash differs the check
\* returns absent, the request is not answered from the cache, and the row of
\* that key is still the old one once the request has been answered
C2_MismatchKeepsRow ==
    Mismatch /\ call.pc = "done" =>
        /\ call.cached = Absent
        /\ ~call.replayed
        /\ idem[call.request.key] = call.rowAtCheck

\* C2 amended: on a stored, unexpired key whose hash differs the check returns
\* absent and itself leaves the row unchanged, the request is not answered
\* from the cache; once answered, the row is the old one when the execution
\* or its store failed, and otherwise holds the hash, the response and the
\* expiry (store time + TTL) of the request just executed
C2_MismatchIsMiss ==
    Mismatch =>
        /\ call.cached = Absent
        /\ ~call.replayed
        /\ call.rowAfterCheck = call.rowAtCheck
        /\ call.pc = "done" =>
               idem[call.request.key] =
                   IF call.executed /\ call.result.action # "error" /\ ~call.storeFailed
                   THEN [form |-> "row", connection_id |-> call.request.conn,
                         request_hash |-> HashOf(call.request),
                         response_body |-> StoredBody(call.result),
                         expires_at |-> call.storedAt + IDEMPOTENCY_TTL_SECONDS]
                   ELSE call.rowAtCheck

C2_Witness ==
    /\ Mismatch
    /\ call.pc = "done"
    /\ idem[call.request.key] # call.rowAtCheck
    /\ idem[call.request.key].request_hash = HashOf(call.request)

\* C10: when the handler of a write has succeeded, the endpoint answers with
\* its normal success response whether or not the audit insert or the
\* idempotency store failed, and a failed insert or store leaves its table
\* as it was
C10_RecordingIsBestEffort ==
    call.pc = "done" /\ call.executed /\ call.result.action # "error" =>
        /\ call.response = IF call.endpoint = "mcp" THEN McpOk(call.result)
                           ELSE StandardResponse(call.result)
        /\ call.auditFailed => audit = call.auditBefore
        /\ call.storeFailed => idem[call.request.key] = call.rowAfterCheck

C10_Witness ==
    /\ call.pc = "done"
    /\ call.endpoint = "mcp"
    /\ call.auditFailed
    /\ call.storeFailed
    /\ call.response = McpOk(call.result)
    /\ call.result.action = "created"


\* C11: a handler that runs longer than its bound (60 seconds on a path with
\* /jobs or /bulk, 30 seconds otherwise) is cancelled and answered with 504
\* and error code timeout; no request is unanswered past its bound
C11_TimeoutEnforced ==
    LET bound == IF Contains(tmo.path, "jobs") \/ Contains(tmo.path, "bulk")
                 THEN 60 ELSE 30
    IN  /\ tmo.pc # "idle" => tmo.elapsed <= bound
        /\ tmo.pc = "answered" /\ tmo.response.status # 200 =>
               /\ tmo.cancelled
               /\ tmo.response.status = 504
               /\ tmo.response.code = "timeout"


\* the request just answered carried the configured token, and a token is
\* configured
ExactToken ==
    /\ auth.header # NoHeader
    /\ auth.header.scheme = "Bearer"
    /\ auth.config \notin {None, ""}
    /\ auth.header.credentials = auth.config

\* C12 as stated: without a header and with any other token the request is
\* rejected before the handler runs, and all these rejections carry one and
\* the same status; with the configured token it reaches the handler; with no
\* token configured every request is answered 503
C12_GuardUniform ==
    /\ auth.pc = "answered" =>
           /\ auth.config \in {None, ""} => auth.status = 503 /\ ~auth.ran
           /\ auth.config \notin {None, ""} /\ ExactToken =>
                  auth.ran /\ auth.status = 200
           /\ auth.config \notin {None, ""} /\ ~ExactToken
                  /\ (auth.header = NoHeader \/ auth.header.scheme = "Bearer") =>
                  ~auth.ran /\ auth.status \in {401, 403}
    /\ auth.pc # "idle" /\ auth.config \notin {None, ""} =>
           Cardinality({x[2] : x \in {y \in auth.refused :
               y[1] = NoHeader \/ y[1].scheme = "Bearer"}}) <= 1

\* C12 amended: a request without a usable bearer header (no header, another
\* scheme, empty credentials) is refused with 403 whatever is configured;
\* with a bearer token and no token configured it is answered 503; with a
\* bearer token other than the configured one it is answered 401 with
\* WWW-Authenticate: Bearer; in none of these cases the handler runs; with
\* exactly the configured token it reaches the handler
C12_Guard ==
    auth.pc = "answered" =>
        LET unusable == \/ auth.header = NoHeader
                        \/ auth.header.credentials = ""
                        \/ auth.header.scheme = "Basic"
        IN  /\ unusable => auth.status = 403 /\ ~auth.ran
            /\ ~unusable /\ auth.config \in {None, ""} =>
                   auth.status = 503 /\ ~auth.ran
            /\ ~unusable /\ auth.config \notin {None, ""}
                   /\ auth.header.credentials # auth.config =>
                   auth.status = 401 /\ auth.www = "Bearer" /\ ~auth.ran
            /\ ~unusable /\ auth.config \notin {None, ""}
                   /\ auth.header.credentials = auth.config =>
                   auth.status = 200 /\ auth.ran

C12_Witness ==
    /\ auth.pc = "answered"
    /\ auth.config = None
    /\ auth.header # NoHeader
    /\ auth.header.credentials = "tok-a"
    /\ auth.header.scheme = "Bearer"
    /\ auth.status = 503


\* C13: for a request, the X-Request-ID header of the response, the
\* meta.request_id of its envelope and the request_id of every audit row
\* written during the request are the same value
C13_OneRequestId ==
    http.pc = "answered" =>
        /\ http.xrid = http.request_id
        /\ http.body.form = "envelope"
        /\ http.body.request_id = http.request_id
        /\ \A k \in http.wrote : logrows[k].request_id = http.request_id

\* C14: every error response has the envelope shape: ok false, no result,
\* error with code, message and details, and meta.request_id
C14_ErrorEnvelope ==
    http.pc = "answered" /\ http.status >= 400 =>
        /\ http.body.form = "envelope"
        /\ http.body.ok = FALSE
        /\ http.body.result = None
        /\ DOMAIN http.body.error = {"code", "message", "details"}
        /\ http.body.request_id = http.request_id


\* the tool call in flight or just answered repeats, with the same key, tool
\* and arguments and within the TTL, the successful call answered before it
PreviousSucceeded ==
    /\ call.pc # "idle"
    /\ call.endpoint = "mcp"
    /\ call.request.conn # None
    /\ call.request.key # None
    /\ call.prev # Absent
    /\ call.request = call.prev.request
    /\ call.checkedAt <= call.prev.storedAt + IDEMPOTENCY_TTL_SECONDS

\* the same, and the response of the call before it was stored under the key
Repeat == PreviousSucceeded /\ call.prev.stored

\* the call is answered with the response stored by the call before it; the
\* tool was not dispatched and no audit row was written
Replayed ==
    /\ call.pc = "done"
    /\ call.replayed
    /\ ~call.executed
    /\ call.response = [status |-> 200, body |-> StoredBody(call.prev.result)]
    /\ audit = call.auditBefore

ChunksOf(seq) == {seq[i] : i \in 1..Len(seq)}

\* the chunks sent come in program order: the preamble (connected, then
\* tools where the variant has them) first, keep-alives only after it, and
\* after the chunks of the except branch nothing else
InOrder ==
    \A i \in 1..Len(sse.out) :
        /\ i <= Len(Preamble(sse.variant)) => sse.out[i] = Preamble(sse.variant)[i]
        /\ i > Len(Preamble(sse.variant)) =>
               sse.out[i] \in ChunksOf(KeepAlive(sse.variant))
                                 \cup ChunksOf(ErrorChunks(sse.variant))
        /\ sse.out[i] \in ChunksOf(ErrorChunks(sse.variant)) =>
               \A j \in i..Len(sse.out) :
                   sse.out[j] \in ChunksOf(ErrorChunks(sse.variant))

\* once the generator saw the peer gone it has ended and sent nothing since
StopsWhenSeen ==
    sse.observed => sse.pc = "ended" /\ Len(sse.out) = sse.seen

C17_AlwaysJsonRpc ==
    rpc.pc = "answered" =>
        /\ rpc.response.status = 200
        /\ rpc.response.body =
              IF rpc.raised
              THEN RpcError(IdOf(rpc.request.body), -32603)
              ELSE IF MethodOf(rpc.request.body) \in
                          {"initialize", "tools/list", "tools/call"}
              THEN RpcResult(IdOf(rpc.request.body))
              ELSE RpcError(IdOf(rpc.request.body), -32601)

\* the rows of a workspace id the external service reported
RowsOf(w) == {i \in 1..Len(connections) : connections[i].workspace_id = <<"reported", w>>}

\* a step keeps every row there is, with its connection id and workspace id
RowsStay ==
    /\ Len(connections') >= Len(connections)
    /\ \A i \in 1..Len(connections) :
           /\ connections'[i].id = connections[i].id
           /\ connections'[i].workspace_id = connections[i].workspace_id

\* a callback that commits for a workspace that has a row adds no row and
\* leaves the row with the ciphertexts of that callback
UpdatesInPlace ==
    \A p \in DOMAIN callbacks, w \in Workspaces :
        (/\ callbacks[p].pc = "save" /\ callbacks[p].workspace_id = w
         /\ RowsOf(w) # {} /\ p \notin DOMAIN callbacks'
         /\ connections' # connections)
        => /\ Len(connections') = Len(connections)
           /\ \A i \in RowsOf(w) : connections'[i].access_token_enc = callbacks[p].n

\* C18: after any sequence of OAuth callbacks, concurrent ones included,
\* there is at most one Connection row per workspace id the external service
\* reported, and a callback for a workspace that has a row updates that row
\* in place: same connection id, new ciphertexts
C18_OneRowPerWorkspace ==
    /\ [](\A w \in Workspaces : Cardinality(RowsOf(w)) <= 1)
    /\ [][RowsStay /\ UpdatesInPlace]_vars

\* C18 witness: a workspace has a row that carries the ciphertexts of a later
\* callback than the one that inserted it, while another callback for the
\* same workspace is about to save
C18_Witness ==
    \E w \in Workspaces :
        /\ \E i \in RowsOf(w) : connections[i].access_token_enc > connections[i].id
        /\ \E p \in DOMAIN callbacks :
               callbacks[p].pc = "save" /\ callbacks[p].workspace_id = w

\* C19: for the types checkbox, title, select, multi_select and date,
\* simplifying the wire property obtained by normalizing a simplified value
\* gives back the value: simplify({type: t, t: w}) = v whenever
\* normalize(t, v) = {t: w}
C19_RoundTrip ==
    (trip.pc = "simplified" /\ DOMAIN trip.normalized.fields = {trip.type})
        => trip.back = trip.value

\* the tool call in flight or just answered went through the idempotency
\* check with a key whose row was past its expiry
Expired ==
    /\ call.pc # "idle"
    /\ call.checked
    /\ call.rowAtCheck # Absent
    /\ call.rowAtCheck.expires_at < call.checkedAt

\* a check that finds no row for the key returns absent
AbsentStaysAbsent ==
    (call.pc # "idle" /\ call.checked /\ call.rowAtCheck = Absent)
        => call.cached = Absent /\ ~call.replayed

\* a row comes into being only by a store
OnlyStoreMakesRows ==
    \A k \in IdemKeys :
        idem[k] = Absent /\ idem'[k] # Absent => call.pc = "store"

\* C20 as stated: the check never returns a cached response from an expired
\* row: a lookup of a key whose row is past its expiry deletes that row and
\* returns absent, so every later check of the key returns absent until a
\* new store for it
C20_ExpiredIsDeleted ==
    /\ Expired => /\ call.cached = Absent
                  /\ ~call.replayed
                  /\ call.rowAfterCheck = Absent
    /\ AbsentStaysAbsent

\* C20 amended: the check never returns a cached response from an expired
\* row; it deletes the row when the database answers, and leaves it, still
\* expired, when the lookup or the delete raises; a check that finds no row
\* returns absent, and only a store makes a row
C20_ExpiredNeverServed ==
    /\ [](Expired => /\ call.cached = Absent
                     /\ ~call.replayed
                     /\ call.rowAfterCheck =
                            IF call.checkFault THEN call.rowAtCheck ELSE Absent)
    /\ []AbsentStaysAbsent
    /\ [][OnlyStoreMakesRows]_vars

\* C20 witness: a check found the row of its key expired, deleted it and
\* returned absent, and the key still has no row
C20_Witness ==
    /\ Expired
    /\ ~call.checkFault
    /\ call.cached = Absent
    /\ call.rowAfterCheck = Absent
    /\ idem[call.request.key] = Absent
    /\ call.pc = "done"

\* the row a successful store of the call in flight writes
RowOfCall ==
    [form |-> "row", connection_id |-> call.request.conn,
     request_hash |-> HashOf(call.request),
     response_body |-> StoredBody(call.result),
     expires_at |-> call.storedAt + IDEMPOTENCY_TTL_SECONDS]

\* the call just answered stored its response
StoredNow ==
    /\ call.pc = "done"
    /\ call.endpoint = "mcp"
    /\ call.executed
    /\ call.result.action # "error"
    /\ call.request.key # None
    /\ ~call.storeFailed

\* the row of a key changes only by a successful store, which writes the row
\* of that store, or by the delete of the row once it is past its expiry
RowIsLastStore ==
    \A k \in IdemKeys :
        idem'[k] # idem[k] =>
            \/ /\ call.pc = "store" /\ call.request.key = k
               /\ StoredNow' /\ idem'[k] = RowOfCall'
            \/ /\ idem'[k] = Absent /\ idem[k].expires_at < now

\* a check with the request of the row, not after the row's expiry
SameRequestInTime ==
    /\ call.pc # "idle"
    /\ call.checked
    /\ call.rowAtCheck # Absent
    /\ call.rowAtCheck.request_hash = HashOf(call.request)
    /\ call.checkedAt <= call.rowAtCheck.expires_at

\* C21 as stated: after any sequence of stores the one row of a key holds
\* the hash, response and expiry (store time + TTL) of the most recent
\* successful store, and a check with that same request before the expiry
\* returns exactly that response
C21_RowServesLastStore ==
    /\ StoredNow => idem[call.request.key] = RowOfCall
    /\ SameRequestInTime =>
           call.replayed /\ call.cached = call.rowAtCheck.response_body

\* C21 amended: the same, with the check returning that response unless its
\* database lookup raises, in which case it returns absent
C21_RowIsLastStore ==
    /\ [](StoredNow => idem[call.request.key] = RowOfCall)
    /\ [][RowIsLastStore]_vars
    /\ [](SameRequestInTime /\ ~call.checkFault =>
              call.replayed /\ call.cached = call.rowAtCheck.response_body)

\* C21 witness: a check made exactly at the expiry of the row of its request
\* is answered with the response of that row
C21_Witness ==
    /\ SameRequestInTime
    /\ ~call.checkFault
    /\ call.checkedAt = call.rowAtCheck.expires_at
    /\ call.replayed
    /\ call.response.body = call.rowAtCheck.response_body

\* the rows of a key
KeyRows(key) == {i \in 1..Len(idrows) : idrows[i].key = key}

\* the stores of a key that committed, in commit order
CommitsOf(key) == SelectSeq(commits, LAMBDA c : c.key = key)

\* no tool call is in flight
AllFinished == \A p \in RaceSlots : racers[p].pc \in {"idle", "done"}

\* C22: when two requests carrying the same previously unused
\* Idempotency-Key run concurrently, at most one row of that key exists in
\* every reachable state, and once both have finished the row holds the
\* response of the request whose store committed last
C22_LastCommitWins ==
    \A key \in {"k1", "k2"} :
        /\ Cardinality(KeyRows(key)) <= 1
        /\ (AllFinished /\ CommitsOf(key) # <<>>) =>
               \E i \in KeyRows(key) :
                   idrows[i].response_body =
                       CommitsOf(key)[Len(CommitsOf(key))].n

\* C22 witness: two requests raced to insert the row of the same unused key;
\* one inserted it, the insert of the other hit the primary key, and with
\* both finished the row holds the response of the one that committed
C22_Witness ==
    /\ AllFinished
    /\ \E p, q \in RaceSlots :
           /\ racers[p].pc = "done" /\ racers[p].outcome = "inserted"
           /\ racers[q].pc = "done" /\ racers[q].outcome = "duplicate"
           /\ racers[p].key = racers[q].key
           /\ \E i \in KeyRows(racers[p].key) :
                  idrows[i].response_body = racers[p].n

\* a page_update that succeeds leaves the relation equal to the list its call
\* read earlier, with its target appended, whatever the relation was
UpdateWritesWhatWasRead ==
    \A p \in LinkSlots :
        (/\ linkers[p].pc = "page_update"
         /\ linkers'[p].pc = "done"
         /\ linkers'[p].action # "error")
        => relation_list' = linkers[p].current_relations

\* C23: the read, append, patch sequence of link is not atomic: the patch
\* writes the list read before it, so two concurrent calls on the same
\* from-page and relation property with different targets can both report
\* linked while the final list lacks one of the two targets
C23_LinkNotAtomic == [][UpdateWritesWhatWasRead]_vars

\* C23 witness: both calls have reported linked, their targets differ, and
\* the relation list lacks one of the two
C23_Witness ==
    /\ \A p \in LinkSlots : linkers[p].pc = "done" /\ linkers[p].action = "linked"
    /\ linkers[1].to # linkers[2].to
    /\ \E p \in LinkSlots : ~Contains(relation_list, linkers[p].to)

\* a running row whose request is not in flight any more is left as it is
OrphanStays ==
    \A id \in 1..Len(rows) :
        (/\ rows[id].status = "running"
         /\ ~(cjob.pc \in {"running", "bulk"} /\ cjob.id = id))
        => /\ Len(rows') >= id
           /\ rows'[id] = rows[id]

\* C24: if the request that created a persisted bulk job is cancelled by the
\* request timeout while the bulk is executing, the job row is running at
\* that moment and stays running in every later state
C24_OrphanStaysRunning ==
    /\ [](cjob.pc = "cancelled" => rows[cjob.id].status = "running")
    /\ [][OrphanStays]_vars

\* C24 witness: a later job has been created and answered while the row of
\* a job whose request was cancelled is still running
C24_Witness ==
    /\ cjob.pc \in {"responded", "raised"}
    /\ \E id \in 1..Len(rows) : id # cjob.id /\ rows[id].status = "running"

\* ------------------------------------------------ the write-audit decorator

MaxWrapped == 3

ExceptionTypes == {"HTTPException", "ValueError"}

\* what a decorated handler does: it returns a StandardResponse whose result
\* is a dict or is not, or it raises
HandlerOutcomes ==
    [kind : {"returned"}, ok : BOOLEAN, result_type : {"dict", "NoneType"}]
    \cup [kind : {"raised"}, type : ExceptionTypes]

Raised(type) == [kind |-> "raised", type |-> type]

\* the row log_audit builds: error_code is a parameter of log_audit that it
\* does not hand to the AuditLog constructor
WrapAuditEntry(success, error_code) ==
    [actor |-> "chatgpt_action", method |-> "POST", path |-> "/v1/upsert",
     success |-> success, error_code |-> None]

\* wrapper: awaits the handler, reads notion_ids of the result and logs; any
\* exception inside the try, the handler's or its own, is logged as a failure
\* and raised again
audit_write_operation(table, outcome, db_ok) ==
    LET failure(type) ==
            [audit |-> log_audit(table, WrapAuditEntry(FALSE, type), db_ok).audit,
             delivered |-> Raised(type)]
    IN  IF outcome.kind = "raised"
        THEN failure(outcome.type)
        ELSE IF outcome.result_type # "dict"
        THEN failure("AttributeError")
        ELSE [audit |-> log_audit(table, WrapAuditEntry(outcome.ok, None), db_ok).audit,
              delivered |-> outcome]

\* a decorated endpoint is called and its handler is awaited
WrapCall ==
    /\ wrapped.pc = "idle"
    /\ Len(wraplog) < MaxWrapped
    /\ wrapped' = [pc |-> "handler"]
    /\ UNCHANGED <<auditrows, wraplog, outsideWrap>>

\* the handler ends and the wrapper logs and hands on
WrapFinish(outcome, db_ok) ==
    /\ wrapped.pc = "handler"
    /\ LET w == audit_write_operation(auditrows, outcome, db_ok)
       IN  /\ auditrows' = w.audit
           /\ wraplog' = Append(wraplog,
                  [outcome |-> outcome, delivered |-> w.delivered,
                   written |-> SubSeq(w.audit, Len(auditrows) + 1, Len(w.audit))])
    /\ wrapped' = [pc |-> "idle"]
    /\ UNCHANGED outsideWrap

InitWrap ==
    /\ auditrows = <<>>
    /\ wrapped = [pc |-> "idle"]
    /\ wraplog = <<>>
    /\ IdleButWrap

NextWrap ==
    \/ WrapCall
    \/ \E outcome \in HandlerOutcomes, db_ok \in BOOLEAN : WrapFinish(outcome, db_ok)

SpecWrap == InitWrap /\ [][NextWrap]_vars

\* ------------------------------------------- return_url folded into the state

\* strings are sequences of characters; the empty string stands for an
\* absent query parameter too, since both are falsy where the code tests them
StateStrings == SeqsUpTo({"s", "|"}, MaxStrLen)

ReturnUrls == SeqsUpTo({"u", "|"}, MaxStrLen)

\* uuid4 in its string form, which holds no pipe
Uuid4 == <<"x">>

\* oauth_start: the state parameter of the authorization URL
FoldState(state, return_url) ==
    LET given == IF state = <<>> THEN Uuid4 ELSE state
    IN  IF return_url # <<>> THEN given \o <<"|">> \o return_url ELSE given

\* oauth_callback: state.split("|", 1) when the state holds a pipe
SplitState(state) ==
    IF \E i \in 1..Len(state) : state[i] = "|"
    THEN LET i == MinOf({k \in 1..Len(state) : state[k] = "|"})
         IN  [state |-> SubSeq(state, 1, i - 1),
              return_url |-> SubSeq(state, i + 1, Len(state))]
    ELSE [state |-> state, return_url |-> <<>>]

\* /oauth/start redirects to the authorization URL
oauth_start(state, return_url) ==
    /\ statetrip.pc = "idle"
    /\ statetrip' = [pc |-> "authorizing", state |-> state,
                     return_url |-> return_url,
                     sent |-> FoldState(state, return_url)]
    /\ UNCHANGED outsideFold

\* /oauth/callback is called with the state that was sent, the connection is
\* saved, and the answer is a redirect when a return_url was recovered
CallbackAnswers ==
    /\ statetrip.pc = "authorizing"
    /\ LET back == SplitState(statetrip.sent)
       IN  statetrip' = [pc |-> "answered", state |-> statetrip.state,
                         return_url |-> statetrip.return_url,
                         sent |-> statetrip.sent,
                         recovered |-> back.return_url,
                         redirect |-> back.return_url # <<>>]
    /\ UNCHANGED outsideFold

\* the next pass
StartAgain ==
    /\ statetrip.pc = "answered"
    /\ statetrip' = [pc |-> "idle"]
    /\ UNCHANGED outsideFold

InitFold ==
    /\ statetrip = [pc |-> "idle"]
    /\ IdleButFold

NextFold ==
    \/ \E state \in StateStrings, return_url \in ReturnUrls :
           oauth_start(state, return_url)
    \/ CallbackAnswers
    \/ StartAgain

SpecFold == InitFold /\ [][NextFold]_vars

\* job id has been enqueued
Enqueued(id) == id <= Len(jobs)

\* job id has reached succeeded or failed
Settled(id) == id <= Len(jobs) /\ jobs[id].status \in {"succeeded", "failed"}

\* a job whose task found no handler for its kind has failed
NoHandlerFails ==
    \A id \in 1..Len(jobs) :
        (jobs[id].task = "finished" /\ jobs[id].returned = None
         /\ jobs[id].raised \notin ExceptionTexts)
        => /\ jobs[id].status = "failed"
           /\ jobs[id].error = NoHandlerText(jobs[id].kind)

SameOutcome(c) == c.delivered = c.outcome

\* a finished decorated call wrote exactly one audit row, and for a handler
\* that raised the row carries the exception's type name as error code
OneAuditRow(c) ==
    /\ Len(c.written) = 1
    /\ c.outcome.kind = "raised" =>
           /\ c.written[1].success = FALSE
           /\ c.written[1].error_code = c.outcome.type

\* C26: the write-audit decorator never alters the outcome of the handler it
\* wraps: a returned result reaches the caller with one success audit row
\* written, a raised exception is re-raised with one failure audit row whose
\* error code is the exception's type name
C26_DecoratorTransparent ==
    \A i \in 1..Len(wraplog) :
        SameOutcome(wraplog[i]) /\ OneAuditRow(wraplog[i])

\* callback recovered the return_url given to start, and redirects exactly
\* when one was given
Recovers ==
    /\ statetrip.recovered = statetrip.return_url
    /\ statetrip.redirect = (statetrip.return_url # <<>>)

\* C27: the state|return_url encoding round-trips: for every state and
\* return_url passed to /oauth/start, /oauth/callback called with the
\* resulting state recovers exactly that return_url and redirects to it, and
\* without a return_url it recovers none and does not redirect
C27_StateRoundTrip ==
    statetrip.pc = "answered" => Recovers

\* every target the relation list held before the last Link call is still in it
KeepsRelations ==
    \A i \in 1..Len(last.relBefore) :
        Contains(pages[req.from].rel, last.relBefore[i])

\* C28: Link never removes an existing relation: after a Link call on a
\* from-page whose relation property already holds other targets, every
\* previously linked target is still in that relation list
C28_LinkKeepsRelations ==
    (req.kind = "link" /\ last.kind = "call" /\ last.action # "error")
        => KeepsRelations

\* the tool call answered last repeats, with the same Idempotency-Key, the
\* failed tool call before it
RepeatOfFailed ==
    call.pc = "done" /\ call.endpoint = "mcp" /\ call.prevFailed

\* a step that ends a tool call in failure creates and changes no row
FailureStoresNothing ==
    (call' # call /\ call'.pc = "done" /\ call'.endpoint = "mcp"
     /\ call'.response.status # 200)
        => \A k \in IdemKeys : idem'[k] \in {idem[k], Absent}

\* no row holds a failure
NoFailureStored ==
    \A k \in IdemKeys :
        idem[k] # Absent =>
            /\ idem[k].response_body.ok
            /\ idem[k].response_body.result.action \notin {"error", "none"}

ReturnedMeansSucceeded ==
    (cjob.pc \in {"responded", "raised"} /\ bulk.pc = "done") =>
        /\ rows[cjob.id].status = "succeeded"
        /\ rows[cjob.id].progress = 100
        /\ rows[cjob.id].output = BulkResult(bulk)
        /\ rows[cjob.id].output.failed = Len(bulk.errors)
        /\ rows[cjob.id].error = None

\* the job of the request in flight is failed only when the execution raised
FailedMeansRaised ==
    (cjob.pc # "idle" /\ rows[cjob.id].status = "failed") =>
        /\ cjob.pc = "raised"
        /\ bulk.pc # "done"

====
